---- MODULE Spec2Model ----
(***************************************************************************)
(* CoreBase Rust bindings: the connection registry (network.rs) and the    *)
(* resource monitor (monitor.rs) as state machines.                        *)
(*                                                                         *)
(* Strings are sequences of bytes, so that the marshalling conversions     *)
(* (to_c_string, from_c_string, String::from_utf8) can fail as they do in  *)
(* the code.  The native transport is the environment: every value it      *)
(* returns is chosen nondeterministically.                                 *)
(*                                                                         *)
(* A call of the registry is a sequence of steps; a step is what the call  *)
(* does between two points at which another thread can see or change the   *)
(* registry: a section under the mutex, or a transport call made without   *)
(* it.  Nothing panics while the mutex is held, so lock() never returns a  *)
(* poisoned lock and the code's branches for that case are not taken.      *)
(***************************************************************************)
EXTENDS Integers, Sequences, FiniteSets, TLC

\* ------------------------------------------------------------- bounds
\* Number of distinct well-formed connection ids the transport hands out.
MaxId == 2
\* Number of calls in a traced run.
MaxOps == 3
\* Largest history_size a monitor is configured with, besides the default.
MaxHistory == 2
\* Number of samples taken into a history before it is cleared.
MaxSamples == 4
\* Seconds the clock advances.
MaxTime == 1
MaxTicks == 2
MaxInstances == 2
MaxNativeCalls == 2
BufferLen == 3

\* ------------------------------------------------------------- values
Threads == {"t1", "t2"}
MainThread == "t1"

\* Bytes that occur in the modelled strings: NUL (0), ASCII letters, and 0xFF
\* (255), which never occurs in well-formed UTF-8.
Hosts == {<<104>>, <<104, 0>>}
Ports == {80, 443}
NetworkConfigs == [host : Hosts, port : Ports]

\* Connection ids as the transport returns them (C strings: no NUL inside).
GoodIds == {<<64 + i>> : i \in 1..MaxId}
TransportIds == GoodIds \cup {<<255>>}

\* A char pointer returned by the transport: null, or a C string.
NullPtr == [null |-> TRUE, bytes |-> <<>>]
CStr(b) == [null |-> FALSE, bytes |-> b]
TransportPtrs == {NullPtr} \cup {CStr(b) : b \in TransportIds}

\* Transport status codes: 0 is success.
StatusCodes == {0, 1}

\* Message payloads: text, text with an embedded NUL, not UTF-8.
Payloads == {<<72>>, <<72, 0>>, <<255>>}

Unit == <<>>
Ok(v) == [ok |-> TRUE, val |-> v, err |-> "none"]
Err(e) == [ok |-> FALSE, val |-> Unit, err |-> e]
IsErr(r, e) == r.ok = FALSE /\ r.err = e

NoConn == [id |-> <<>>, config |-> [host |-> <<>>, port |-> 0], state |-> "Disconnected"]

\* All orders in which a HashMap may iterate over the set S.
Orders(S) == {s \in [1..Cardinality(S) -> S] : \A i, j \in 1..Cardinality(S) : s[i] = s[j] => i = j}

SeqToSet(s) == {s[i] : i \in 1..Len(s)}

VARIABLES
  initialized,   \* NetworkManager.initialized
  connections,   \* NetworkManager.connections: id -> NetworkConnection
  th,            \* per calling thread: position in its current call, and its locals
  last,          \* the call that returned most recently, with its result
  hist,          \* the calls that have returned, in the order of their returns
  tracing,       \* whether hist is kept (it bounds the run to MaxOps calls)
  mon_initialized, \* SystemMonitor.initialized
  config,        \* SystemMonitor.config
  history,       \* SystemMonitor.history, oldest first
  last_update,   \* SystemMonitor.last_update
  now,           \* the clock, in seconds
  arrivals,      \* the samples taken since the history was last empty, in order
  grown,         \* whether history_size was raised since the history was last empty
  answer,        \* what the monitor call just made returned; none once the state moved on
  sender,        \* AsyncSystemMonitor.sender is Some: the handle stop_monitoring drops
  receiver,      \* the consumer's end of the channel: "none", "held" or "dropped"
  loop_pc,       \* the task spawned by start_monitoring: "none", "await_tick", "body", "done"
  open_ticks,    \* the ticks on which the task found the channel open
  published,     \* the snapshots the task has sent into the channel, each named by its tick
  settled,       \* the channel was closed or stop_monitoring invoked, and the tick
                 \* in flight at that moment is over
  INIT,          \* static INIT: Once: "incomplete", "running" or "complete"
  INITIALIZED,   \* static mut INITIALIZED: bool
  natives,       \* how often each native lifecycle function was invoked, or succeeded
  instances,     \* the CoreBase instances alive
  lib,           \* per thread: its position in a lifecycle call
  lib_last,      \* the lifecycle call that returned most recently
  cache          \* ConfigManager.cache: key -> ConfigValue

netvars == <<initialized, connections, th, last, hist, tracing>>
monvars == <<mon_initialized, config, history, last_update, now, arrivals, grown, answer>>
asyncvars == <<sender, receiver, loop_pc, open_ticks, published, settled>>
libvars == <<INIT, INITIALIZED, natives, instances, lib, lib_last>>
cfgvars == <<cache>>
vars == <<netvars, monvars, asyncvars, libvars, cfgvars>>

\* ------------------------------------------------ marshalling (lib.rs)
HasNul(s) == \E i \in 1..Len(s) : s[i] = 0

\* (mutant) a NUL inside the string is let through
to_c_string_unchecked(s) == Ok(s)

to_c_string(s) == IF HasNul(s) THEN Err("InvalidString") ELSE Ok(s)

\* Exact on the modelled bytes: ASCII is well-formed, 0xFF never is.
IsUtf8(b) == \A i \in 1..Len(b) : b[i] < 128

from_c_string(ptr) ==
  IF ptr.null THEN Ok(<<>>)
  ELSE IF IsUtf8(ptr.bytes) THEN Ok(ptr.bytes)
  ELSE Err("InvalidString")

\* ------------------------------------------------ NetworkConnection
\* The outcomes of connection.send(message): the result and the transport
\* calls made, for every status the transport may return.
SendOutcomes(conn, data) ==
  IF ~IsUtf8(data) THEN {[res |-> Err("NetworkError"), calls |-> <<>>]}
  ELSE IF ~to_c_string(conn.id).ok THEN {[res |-> to_c_string(conn.id), calls |-> <<>>]}
  ELSE IF ~to_c_string(data).ok THEN {[res |-> to_c_string(data), calls |-> <<>>]}
  ELSE {[res |-> (IF rc = 0 THEN Ok(Unit) ELSE Err("NetworkError")),
         calls |-> <<[fn |-> "send", id |-> conn.id, rc |-> rc]>>] : rc \in StatusCodes}

\* (mutant) close() reports success without a transport call
CloseOutcomes_local(conn) == {[res |-> Ok(Unit), calls |-> <<>>]}

\* The outcomes of connection.close().
CloseOutcomes(conn) ==
  IF ~to_c_string(conn.id).ok THEN {[res |-> to_c_string(conn.id), calls |-> <<>>]}
  ELSE {[res |-> (IF rc = 0 THEN Ok(Unit) ELSE Err("NetworkError")),
         calls |-> <<[fn |-> "close", id |-> conn.id, rc |-> rc]>>] : rc \in StatusCodes}

\* vec![0u8; 4096], and what the transport leaves in it: BufferLen bytes, each
\* a NUL or not
ReceiveBuffers == [1..BufferLen -> {0, 72}]

\* (mutant) the buffer is returned whole
until_nul_whole(b) == b

\* buffer[..null_pos]: the bytes before the first NUL
RECURSIVE until_nul(_)
until_nul(b) ==
  IF b = <<>> \/ Head(b) = 0 THEN <<>> ELSE <<Head(b)>> \o until_nul(Tail(b))

\* The outcomes of connection.receive(): the result and the transport call
\* made, for every status the transport may return, every content of the
\* buffer and every time of the clock.
ReceiveOutcomes(conn) ==
  IF ~to_c_string(conn.id).ok THEN {[res |-> to_c_string(conn.id), calls |-> <<>>]}
  ELSE {[res |-> (IF rc = 0
                    THEN Ok([data |-> until_nul(buf), topic |-> <<>>, headers |-> <<>>,
                             timestamp |-> ts, sender |-> <<>>])
                    ELSE Err("NetworkError")),
         calls |-> <<[fn |-> "receive", id |-> conn.id, rc |-> rc, buf |-> buf]>>] :
          rc \in StatusCodes, buf \in ReceiveBuffers, ts \in 0..MaxTime}

\* ------------------------------------------------ registry map
\* (mutant) the insertion is lost
MapInsert_lost(m, k, v) == m

MapInsert(m, k, v) == [x \in DOMAIN m \cup {k} |-> IF x = k THEN v ELSE m[x]]
\* (mutant) the entry is never removed
MapRemove_kept(m, k) == m

MapRemove(m, k) == [x \in DOMAIN m \ {k} |-> m[x]]

\* (mutant) an absent id yields a default connection instead of an error
get_connection_or_default(m, id) ==
  Ok(IF id \in DOMAIN m THEN m[id] ELSE [NoConn EXCEPT !.id = id])

get_connection(m, id) ==
  IF id \in DOMAIN m THEN Ok(m[id]) ELSE Err("ResourceNotFound")

connection_count == Cardinality(DOMAIN connections)

\* ------------------------------------------------ calls
\* A caller's frame: pc, the call and its argument, its locals, and for the
\* properties the registry at the time of the call (pre), the snapshot it
\* took (snap), the transport calls it made (calls) and the number of calls
\* that had returned when it was invoked (inv).
Idle ==
  [pc |-> "idle", op |-> "none", arg |-> <<>>, conn |-> NoConn, todo |-> <<>>,
   snap |-> <<>>, failed |-> <<>>, calls |-> <<>>, outer |-> "none", pre |-> <<>>, inv |-> 0]

Frame(op, arg) ==
  [Idle EXCEPT !.op = op, !.arg = arg, !.pre = connections, !.inv = Len(hist)]

NoCall ==
  [t |-> "none", op |-> "none", arg |-> <<>>, res |-> Ok(Unit), calls |-> <<>>,
   snap |-> <<>>, pre |-> <<>>, inv |-> 0]

NetInit ==
  /\ initialized = TRUE
  /\ connections = <<>>
  /\ th = [t \in Threads |-> Idle]
  /\ last = NoCall

\* Thread t may start a call.
Started == Len(hist) + Cardinality({t \in Threads : th[t].pc # "idle"})
CanInvoke(t) == th[t].pc = "idle" /\ (tracing => Started < MaxOps)

\* The call of frame f returns res to thread t.
Return(t, f, res) ==
  /\ th' = [th EXCEPT ![t] = Idle]
  /\ last' = [t |-> t, op |-> f.op, arg |-> f.arg, res |-> res, calls |-> f.calls,
              snap |-> f.snap, pre |-> f.pre, inv |-> f.inv]
  /\ hist' = IF tracing THEN Append(hist, last') ELSE hist
  /\ UNCHANGED <<monvars, asyncvars, libvars, cfgvars>>

\* A step inside a call, which does not return.
Goes(t, f) ==
  /\ th' = [th EXCEPT ![t] = f]
  /\ UNCHANGED <<last, hist>>
  /\ UNCHANGED <<monvars, asyncvars, libvars, cfgvars>>

\* --- NetworkManager::create_connection
\* (mutant) the null check is missing
is_null_unchecked(ptr) == FALSE

is_null(ptr) == ptr.null

\* (mutant) the new connection is left in state Connecting
NewConnection_connecting(id, cfg) == [id |-> id, config |-> cfg, state |-> "Connecting"]

NewConnection(id, cfg) == [id |-> id, config |-> cfg, state |-> "Connected"]

\* Up to the transport call and the conversion of the id it returned; the
\* registry lock is not held here.
CreateTransport(t, cfg) ==
  /\ CanInvoke(t)
  /\ UNCHANGED <<initialized, connections, tracing>>
  /\ IF ~initialized
       THEN Return(t, Frame("create", cfg), Err("OperationFailed"))
     ELSE IF ~to_c_string(cfg.host).ok
       THEN Return(t, Frame("create", cfg), to_c_string(cfg.host))
     ELSE \E ptr \in TransportPtrs :
       LET f == [Frame("create", cfg) EXCEPT
                   !.calls = <<[fn |-> "create", id |-> ptr.bytes,
                                rc |-> IF ptr.null THEN 1 ELSE 0]>>] IN
       IF is_null(ptr)
         THEN Return(t, f, Err("NetworkError"))
       ELSE IF ~from_c_string(ptr).ok
         THEN Return(t, f, from_c_string(ptr))
       ELSE Goes(t, [f EXCEPT !.pc = "create_insert",
                       !.conn = NewConnection(from_c_string(ptr).val, cfg)])

\* lock; connections.insert(id, connection.clone()); unlock; Ok(connection)
CreateInsert(t) ==
  /\ th[t].pc = "create_insert"
  /\ connections' = MapInsert(connections, th[t].conn.id, th[t].conn)
  /\ UNCHANGED <<initialized, tracing>>
  /\ Return(t, th[t], Ok(th[t].conn))

\* --- NetworkManager::get_connection, list_connections, connection_count
GetConnection(t, id) ==
  /\ CanInvoke(t)
  /\ UNCHANGED <<initialized, connections, tracing>>
  /\ Return(t, Frame("get", id), get_connection(connections, id))

list_connections(m) == {[i \in 1..Len(o) |-> m[o[i]]] : o \in Orders(DOMAIN m)}

ConnectionCount(t) ==
  /\ CanInvoke(t)
  /\ UNCHANGED <<initialized, connections, tracing>>
  /\ Return(t, Frame("count", Unit), Ok(connection_count))

\* --- NetworkManager::close_connection
\* What close_all_connections does with the ids left once one close returned.
\* (mutant) close_all_connections gives up at the first close that fails
close_all_rest_abort(res, todo) == IF res.ok THEN Tail(todo) ELSE <<>>

close_all_rest(res, todo) == Tail(todo)

\* close_connection returns res to its caller: the user, or close_all_connections.
CloseReturn(t, res, cs) ==
  IF th[t].outer = "close_all"
    THEN Goes(t, [th[t] EXCEPT !.pc = "close_all_loop", !.conn = NoConn,
                    !.todo = close_all_rest(res, th[t].todo), !.calls = cs])
    ELSE Return(t, [th[t] EXCEPT !.calls = cs], res)

\* if let Ok(connection) = self.get_connection(id) ... else ResourceNotFound
CloseLookup(t, id) ==
  /\ CanInvoke(t)
  /\ UNCHANGED <<initialized, connections, tracing>>
  /\ IF get_connection(connections, id).ok
       THEN Goes(t, [Frame("close", id) EXCEPT !.pc = "close_transport",
                       !.conn = get_connection(connections, id).val])
       ELSE Return(t, Frame("close", id), Err("ResourceNotFound"))

\* connection.close()?  (no lock held)
CloseTransport(t) ==
  /\ th[t].pc = "close_transport"
  /\ UNCHANGED <<initialized, connections, tracing>>
  /\ \E o \in CloseOutcomes(th[t].conn) :
       IF o.res.ok
         THEN Goes(t, [th[t] EXCEPT !.pc = "close_remove", !.calls = th[t].calls \o o.calls])
         ELSE CloseReturn(t, o.res, th[t].calls \o o.calls)

\* lock; connections.remove(id); unlock; Ok(())
CloseRemove(t) ==
  /\ th[t].pc = "close_remove"
  /\ connections' = MapRemove(connections, th[t].conn.id)
  /\ UNCHANGED <<initialized, tracing>>
  /\ CloseReturn(t, Ok(Unit), th[t].calls)

\* --- NetworkManager::close_all_connections
\* lock; keys().cloned().collect(); unlock
CloseAllSnapshot(t) ==
  /\ CanInvoke(t)
  /\ UNCHANGED <<initialized, connections, tracing>>
  /\ \E ids \in Orders(DOMAIN connections) :
       Goes(t, [Frame("close_all", Unit) EXCEPT !.pc = "close_all_loop",
                  !.todo = ids, !.snap = ids, !.outer = "close_all"])

\* for connection_id in connection_ids { let _ = self.close_connection(&connection_id); }
\* the next id's close_connection starts with its lookup.
CloseAllNext(t) ==
  /\ th[t].pc = "close_all_loop"
  /\ th[t].todo # <<>>
  /\ UNCHANGED <<initialized, connections, tracing>>
  /\ LET id == Head(th[t].todo) IN
     IF get_connection(connections, id).ok
       THEN Goes(t, [th[t] EXCEPT !.pc = "close_transport",
                       !.conn = get_connection(connections, id).val])
       ELSE Goes(t, [th[t] EXCEPT !.todo = close_all_rest(Err("ResourceNotFound"), th[t].todo)])

CloseAllReturn(t) ==
  /\ th[t].pc = "close_all_loop"
  /\ th[t].todo = <<>>
  /\ UNCHANGED <<initialized, connections, tracing>>
  /\ Return(t, th[t], Ok(Unit))

\* --- the registry lock
\* create_connection with its transport call as a step of its own: up to
\* the call
CreateEnter(t, cfg) ==
  /\ CanInvoke(t)
  /\ UNCHANGED <<initialized, connections, tracing>>
  /\ IF ~initialized
       THEN Return(t, Frame("create", cfg), Err("OperationFailed"))
     ELSE IF ~to_c_string(cfg.host).ok
       THEN Return(t, Frame("create", cfg), to_c_string(cfg.host))
     ELSE Goes(t, [Frame("create", cfg) EXCEPT !.pc = "create_transport"])

\* cba_network_create_connection returns, and the id is converted
CreateCall(t) ==
  /\ th[t].pc = "create_transport"
  /\ UNCHANGED <<initialized, connections, tracing>>
  /\ \E ptr \in TransportPtrs :
       LET f == [th[t] EXCEPT
                   !.calls = <<[fn |-> "create", id |-> ptr.bytes,
                                rc |-> IF ptr.null THEN 1 ELSE 0]>>] IN
       IF is_null(ptr)
         THEN Return(t, f, Err("NetworkError"))
       ELSE IF ~from_c_string(ptr).ok
         THEN Return(t, f, from_c_string(ptr))
       ELSE Goes(t, [f EXCEPT !.pc = "create_insert",
                       !.conn = NewConnection(from_c_string(ptr).val, th[t].arg)])

\* NetworkManager::list_connections
ListConnections(t) ==
  /\ CanInvoke(t)
  /\ UNCHANGED <<initialized, connections, tracing>>
  /\ \E cl \in list_connections(connections) : Return(t, Frame("list", Unit), Ok(cl))

\* The thread of frame f is inside a transport call.
InTransport(f) ==
  \/ f.pc \in {"create_transport", "close_transport", "send_transport", "receive_transport"}
  \/ f.pc = "broadcast_loop" /\ f.todo # <<>>

\* (mutant) close_connection keeps the guard of its lookup until it returns
lock_held_through_close(f) == f.pc \in {"close_transport", "close_remove"}

\* The thread of frame f holds the registry lock.  Every MutexGuard is the
\* temporary of an `if let` whose body is the map operation alone, or lives
\* inside get_connection / list_connections: between two steps none is held.
lock_held(f) == FALSE

\* Thread t can take the registry lock: no other thread holds it.
LockFree(t) == \A u \in Threads \ {t} : ~lock_held(th[u])

\* --- NetworkManager::send_message
\* let connection = self.get_connection(connection_id)?;  (lock taken and released)
SendLookup(t, id, data) ==
  /\ CanInvoke(t)
  /\ UNCHANGED <<initialized, connections, tracing>>
  /\ LET fr == Frame("send_message", [id |-> id, data |-> data])
         r == get_connection(connections, id) IN
     IF ~r.ok THEN Return(t, fr, r)
     ELSE Goes(t, [fr EXCEPT !.pc = "send_transport", !.conn = r.val])

\* connection.send(message)  (no lock held)
SendTransport(t) ==
  /\ th[t].pc = "send_transport"
  /\ UNCHANGED <<initialized, connections, tracing>>
  /\ \E o \in SendOutcomes(th[t].conn, th[t].arg.data) :
       Return(t, [th[t] EXCEPT !.calls = o.calls], o.res)

\* --- NetworkManager::receive_message
ReceiveLookup(t, id) ==
  /\ CanInvoke(t)
  /\ UNCHANGED <<initialized, connections, tracing>>
  /\ LET fr == Frame("receive_message", [id |-> id])
         r == get_connection(connections, id) IN
     IF ~r.ok THEN Return(t, fr, r)
     ELSE Goes(t, [fr EXCEPT !.pc = "receive_transport", !.conn = r.val])

\* connection.receive()  (no lock held)
ReceiveTransport(t) ==
  /\ th[t].pc = "receive_transport"
  /\ UNCHANGED <<initialized, connections, tracing>>
  /\ \E o \in ReceiveOutcomes(th[t].conn) :
       Return(t, [th[t] EXCEPT !.calls = o.calls], o.res)

\* --- impl Drop for NetworkManager
\* let _ = self.close_all_connections(): the snapshot, then the loop above
DropSnapshot(t) ==
  /\ CanInvoke(t)
  /\ UNCHANGED <<initialized, connections, tracing>>
  /\ \E ids \in Orders(DOMAIN connections) :
       Goes(t, [Frame("drop", Unit) EXCEPT !.pc = "close_all_loop",
                  !.todo = ids, !.snap = ids, !.outer = "close_all"])

\* --- NetworkManager::broadcast_message
\* (mutant) the ids collected are those whose send succeeded
broadcast_collect_inverted(failed, conn, res) ==
  IF res.ok THEN Append(failed, conn.id) ELSE failed

broadcast_collect(failed, conn, res) ==
  IF ~res.ok THEN Append(failed, conn.id) ELSE failed

\* let connections = self.list_connections()?;
BroadcastSnapshot(t, data) ==
  /\ CanInvoke(t)
  /\ UNCHANGED <<initialized, connections, tracing>>
  /\ \E cl \in list_connections(connections) :
       Goes(t, [Frame("broadcast", data) EXCEPT !.pc = "broadcast_loop",
                  !.todo = cl, !.snap = cl])

\* for connection in connections { if let Err(_) = connection.send(message) { push } }
BroadcastSend(t) ==
  /\ th[t].pc = "broadcast_loop"
  /\ th[t].todo # <<>>
  /\ UNCHANGED <<initialized, connections, tracing>>
  /\ \E o \in SendOutcomes(Head(th[t].todo), th[t].arg) :
       Goes(t, [th[t] EXCEPT !.todo = Tail(th[t].todo),
                  !.calls = th[t].calls \o o.calls,
                  !.failed = broadcast_collect(th[t].failed, Head(th[t].todo), o.res)])

BroadcastReturn(t) ==
  /\ th[t].pc = "broadcast_loop"
  /\ th[t].todo = <<>>
  /\ UNCHANGED <<initialized, connections, tracing>>
  /\ Return(t, th[t], Ok(th[t].failed))

\* ------------------------------------------------ async_ops (network.rs)
\* Duration::from_millis(5000), the deadline of send_message_async and
\* receive_message_async
SendTimeoutMs == 5000

\* How long a transport call blocks, in milliseconds: no time, up to the
\* deadline, beyond it.
Durations == {0, SendTimeoutMs, SendTimeoutMs + 1}

\* The configurations passed to create_connection_async
AsyncConfigs == [host : {<<104>>}, port : {80}, timeout_ms : {0, SendTimeoutMs}]

\* timeout(deadline, future).await.map_err(|_| Timeout)?, for a future whose
\* value is inner and which takes took to give it.  Timeout polls the future
\* before it looks at the deadline: a future that is ready at its first poll
\* gives its value however long that poll took.
timeout(deadline, took, ready_at_first_poll, inner) ==
  IF ready_at_first_poll THEN inner
  ELSE IF took > deadline THEN Err("Timeout")
  ELSE inner

\* async { self.create_connection(config) }, async { connection.send(message) }
\* and async { connection.receive() } hold no .await: the synchronous call runs
\* to its end inside the first poll.
ReadyAtFirstPoll == TRUE

\* The transport calls cs, each having blocked for took
Timed(cs, took) == [i \in 1..Len(cs) |-> [fn |-> cs[i].fn, id |-> cs[i].id, rc |-> cs[i].rc,
                                           took |-> took]]

\* --- create_connection_async: create_connection up to the insertion
CreateAsyncTransport(t, cfg, took) ==
  /\ CanInvoke(t)
  /\ UNCHANGED <<initialized, connections, tracing>>
  /\ LET fr == Frame("create_connection_async", cfg) IN
     IF ~initialized
       THEN Return(t, fr, timeout(cfg.timeout_ms, 0, ReadyAtFirstPoll, Err("OperationFailed")))
     ELSE IF ~to_c_string(cfg.host).ok
       THEN Return(t, fr, timeout(cfg.timeout_ms, 0, ReadyAtFirstPoll, to_c_string(cfg.host)))
     ELSE \E ptr \in TransportPtrs :
       LET f == [fr EXCEPT
                   !.calls = <<[fn |-> "create", id |-> ptr.bytes,
                                rc |-> IF ptr.null THEN 1 ELSE 0, took |-> took]>>] IN
       IF is_null(ptr)
         THEN Return(t, f, timeout(cfg.timeout_ms, took, ReadyAtFirstPoll, Err("NetworkError")))
       ELSE IF ~from_c_string(ptr).ok
         THEN Return(t, f, timeout(cfg.timeout_ms, took, ReadyAtFirstPoll, from_c_string(ptr)))
       ELSE Goes(t, [f EXCEPT !.pc = "create_async_insert",
                       !.conn = NewConnection(from_c_string(ptr).val, cfg)])

\* the insertion, and the value of the future through the timeout
CreateAsyncInsert(t) ==
  /\ th[t].pc = "create_async_insert"
  /\ connections' = MapInsert(connections, th[t].conn.id, th[t].conn)
  /\ UNCHANGED <<initialized, tracing>>
  /\ Return(t, th[t], timeout(th[t].arg.timeout_ms, th[t].calls[1].took, ReadyAtFirstPoll,
                              Ok(th[t].conn)))

\* --- send_message_async: let connection = self.get_connection(connection_id)?;
SendAsyncLookup(t, id, data) ==
  /\ CanInvoke(t)
  /\ UNCHANGED <<initialized, connections, tracing>>
  /\ LET fr == Frame("send_message_async", [id |-> id, data |-> data])
         r == get_connection(connections, id) IN
     IF ~r.ok THEN Return(t, fr, r)
     ELSE Goes(t, [fr EXCEPT !.pc = "send_async", !.conn = r.val])

\* timeout(Duration::from_millis(5000), async { connection.send(message) })
SendAsyncTransport(t, took) ==
  /\ th[t].pc = "send_async"
  /\ UNCHANGED <<initialized, connections, tracing>>
  /\ \E o \in SendOutcomes(th[t].conn, th[t].arg.data) :
       Return(t, [th[t] EXCEPT !.calls = Timed(o.calls, took)],
              timeout(SendTimeoutMs, took, ReadyAtFirstPoll, o.res))

\* --- receive_message_async
ReceiveAsyncLookup(t, id) ==
  /\ CanInvoke(t)
  /\ UNCHANGED <<initialized, connections, tracing>>
  /\ LET fr == Frame("receive_message_async", [id |-> id])
         r == get_connection(connections, id) IN
     IF ~r.ok THEN Return(t, fr, r)
     ELSE Goes(t, [fr EXCEPT !.pc = "receive_async", !.conn = r.val])

\* timeout(Duration::from_millis(5000), async { connection.receive() })
ReceiveAsyncTransport(t, took) ==
  /\ th[t].pc = "receive_async"
  /\ UNCHANGED <<initialized, connections, tracing>>
  /\ \E o \in ReceiveOutcomes(th[t].conn) :
       Return(t, [th[t] EXCEPT !.calls = Timed(o.calls, took)],
              timeout(SendTimeoutMs, took, ReadyAtFirstPoll, o.res))

\* ------------------------------------------------ monitor.rs
DefaultHistorySize == 100

\* MonitoringConfig::default()
MonitoringConfigDefault ==
  [update_interval |-> 1, history_size |-> DefaultHistorySize,
   enable_cpu_monitoring |-> TRUE, enable_memory_monitoring |-> TRUE,
   enable_disk_monitoring |-> TRUE, enable_network_monitoring |-> TRUE,
   enable_gpu_monitoring |-> TRUE,
   cpu_threshold |-> 80, memory_threshold |-> 85, disk_threshold |-> 90,
   network_threshold |-> 80, gpu_threshold |-> 80]

\* The configurations a caller passes to with_config and set_config.
MonitoringConfigs ==
  {[MonitoringConfigDefault EXCEPT !.history_size = h, !.enable_memory_monitoring = e] :
     h \in 0..MaxHistory, e \in BOOLEAN}

\* What the sampler adapter answers to one round of queries.  The byte
\* counts are small powers of two, on which the f64 percentages are exact.
Readings ==
  {[cpu |-> 10, mem_available |-> 6, mem_total |-> 8, mem_rc |-> 0,
    disk_available |-> 4, disk_total |-> 8, disk_rc |-> 0, network |-> 0, gpu |-> 0],
   [cpu |-> 30, mem_available |-> 2, mem_total |-> 8, mem_rc |-> 0,
    disk_available |-> 0, disk_total |-> 0, disk_rc |-> 1, network |-> 25, gpu |-> 75]}

\* SystemResources::default(), stamped at time ts
SystemResourcesDefault(ts) ==
  [cpu_usage_percent |-> 0, available_memory_bytes |-> 0, total_memory_bytes |-> 0,
   available_disk_bytes |-> 0, total_disk_bytes |-> 0, network_usage_percent |-> 0,
   gpu_usage_percent |-> 0, timestamp |-> ts]

\* (mutant) the share that is available, not the share that is used
memory_usage_percent_available(r) ==
  IF r.total_memory_bytes > 0
    THEN (r.available_memory_bytes * 100) \div r.total_memory_bytes
    ELSE 0

memory_usage_percent(r) ==
  IF r.total_memory_bytes > 0
    THEN ((r.total_memory_bytes - r.available_memory_bytes) * 100) \div r.total_memory_bytes
    ELSE 0

disk_usage_percent(r) ==
  IF r.total_disk_bytes > 0
    THEN ((r.total_disk_bytes - r.available_disk_bytes) * 100) \div r.total_disk_bytes
    ELSE 0

\* impl From<&SystemResources> for MonitoringDataPoint
MonitoringDataPoint(r) ==
  [timestamp |-> r.timestamp, cpu_usage |-> r.cpu_usage_percent,
   memory_usage |-> memory_usage_percent(r), disk_usage |-> disk_usage_percent(r),
   network_usage |-> r.network_usage_percent, gpu_usage |-> r.gpu_usage_percent]

\* while self.history.len() > size { self.history.pop_front(); }
RECURSIVE pop_front_while_over(_, _)
pop_front_while_over(h, size) ==
  IF Len(h) > size THEN pop_front_while_over(Tail(h), size) ELSE h

\* (mutant) the size limit is not maintained
add_to_history_unbounded(h, r, size) == Append(h, MonitoringDataPoint(r))

\* (mutant) the newest sample is evicted instead of the oldest
add_to_history_pop_back(h, r, size) ==
  LET a == Append(h, MonitoringDataPoint(r)) IN
  IF Len(a) > size THEN SubSeq(a, 1, size) ELSE a

\* SystemMonitor::add_to_history
add_to_history(h, r, size) ==
  pop_front_while_over(Append(h, MonitoringDataPoint(r)), size)

\* The history after set_config
resize_history(h, size) == pop_front_while_over(h, size)

\* (mutant) every category is read, whatever the enable flags
read_resources_all(c, rd, ts) ==
  [cpu_usage_percent |-> rd.cpu,
   available_memory_bytes |-> rd.mem_available, total_memory_bytes |-> rd.mem_total,
   available_disk_bytes |-> rd.disk_available, total_disk_bytes |-> rd.disk_total,
   network_usage_percent |-> rd.network, gpu_usage_percent |-> rd.gpu, timestamp |-> ts]

\* What get_system_resources reads with configuration c, the adapter
\* answering rd: a category that is disabled, or whose query fails, keeps the
\* value of SystemResources::default().
read_resources(c, rd, ts) ==
  LET d == SystemResourcesDefault(ts)
      mem == c.enable_memory_monitoring /\ rd.mem_rc = 0
      disk == c.enable_disk_monitoring /\ rd.disk_rc = 0
  IN [cpu_usage_percent |-> IF c.enable_cpu_monitoring THEN rd.cpu ELSE d.cpu_usage_percent,
      available_memory_bytes |-> IF mem THEN rd.mem_available ELSE d.available_memory_bytes,
      total_memory_bytes |-> IF mem THEN rd.mem_total ELSE d.total_memory_bytes,
      available_disk_bytes |-> IF disk THEN rd.disk_available ELSE d.available_disk_bytes,
      total_disk_bytes |-> IF disk THEN rd.disk_total ELSE d.total_disk_bytes,
      network_usage_percent |->
        IF c.enable_network_monitoring THEN rd.network ELSE d.network_usage_percent,
      gpu_usage_percent |-> IF c.enable_gpu_monitoring THEN rd.gpu ELSE d.gpu_usage_percent,
      timestamp |-> ts]

get_history == history

\* No monitor call has just returned.
NoAnswer == [op |-> "none", arg |-> <<>>, val |-> <<>>, queried |-> <<>>]

\* The adapter functions get_system_resources calls under configuration c,
\* in the order of the calls.
adapter_queries(c) ==
  (IF c.enable_cpu_monitoring THEN <<"cba_monitor_get_cpu_usage">> ELSE <<>>)
  \o (IF c.enable_memory_monitoring THEN <<"cba_monitor_get_memory_usage">> ELSE <<>>)
  \o (IF c.enable_disk_monitoring THEN <<"cba_monitor_get_disk_usage">> ELSE <<>>)
  \o (IF c.enable_network_monitoring THEN <<"cba_monitor_get_network_usage">> ELSE <<>>)
  \o (IF c.enable_gpu_monitoring THEN <<"cba_monitor_get_gpu_usage">> ELSE <<>>)

None == [some |-> FALSE, at |-> 0]
Some(x) == [some |-> TRUE, at |-> x]

\* SystemMonitor::new(), and a monitor nobody uses
MonRest ==
  /\ mon_initialized = TRUE
  /\ config = MonitoringConfigDefault
  /\ history = <<>>
  /\ last_update = None
  /\ now = 0
  /\ arrivals = <<>>
  /\ grown = FALSE
  /\ answer = NoAnswer

\* SystemMonitor::new() or SystemMonitor::with_config(c)
MonInit ==
  /\ mon_initialized = TRUE
  /\ config \in MonitoringConfigs \cup {MonitoringConfigDefault}
  /\ history = <<>>
  /\ last_update = None
  /\ now = 0
  /\ arrivals = <<>>
  /\ grown = FALSE
  /\ answer = NoAnswer

\* SystemMonitor::get_system_resources
GetSystemResources(rd) ==
  /\ mon_initialized
  /\ Len(arrivals) < MaxSamples
  /\ LET r == read_resources(config, rd, now) IN
     /\ history' = add_to_history(history, r, config.history_size)
     /\ arrivals' = Append(arrivals, MonitoringDataPoint(r))
     /\ answer' = [op |-> "get_system_resources", arg |-> <<>>, val |-> Ok(r),
                    queried |-> adapter_queries(config)]
  /\ last_update' = Some(now)
  /\ UNCHANGED <<mon_initialized, config, now, grown>>
  /\ UNCHANGED <<netvars, asyncvars, libvars, cfgvars>>

\* SystemMonitor::set_config
SetConfig(c) ==
  /\ config' = c
  /\ history' = resize_history(history, c.history_size)
  /\ grown' = (grown \/ (arrivals # <<>> /\ c.history_size > config.history_size))
  /\ answer' = NoAnswer
  /\ UNCHANGED <<mon_initialized, last_update, now, arrivals>>
  /\ UNCHANGED <<netvars, asyncvars, libvars, cfgvars>>

\* SystemMonitor::clear_history
ClearHistory ==
  /\ history' = <<>>
  /\ arrivals' = <<>>
  /\ grown' = FALSE
  /\ answer' = NoAnswer
  /\ UNCHANGED <<mon_initialized, config, last_update, now>>
  /\ UNCHANGED <<netvars, asyncvars, libvars, cfgvars>>

\* A second passes.
Tick ==
  /\ now < MaxTime
  /\ now' = now + 1
  /\ answer' = NoAnswer
  /\ UNCHANGED <<mon_initialized, config, history, last_update, arrivals, grown>>
  /\ UNCHANGED <<netvars, asyncvars, libvars, cfgvars>>

\* ------------------------------------------------ aggregates (monitor.rs)
\* The f64 fields of a MonitoringDataPoint
UsageFields == {"cpu_usage", "memory_usage", "disk_usage", "network_usage", "gpu_usage"}

\* MonitoringDataPoint { timestamp: now, cpu_usage: 0.0, ... }
zero_point(ts) ==
  [timestamp |-> ts, cpu_usage |-> 0, memory_usage |-> 0, disk_usage |-> 0,
   network_usage |-> 0, gpu_usage |-> 0]

\* f64::max
f64_max(a, b) == IF b > a THEN b ELSE a

\* The quotient of the number format: the numbers of the model are whole, and
\* a quotient is rounded to one of them as f64 rounds its own.
f64_div(a, b) == a \div b

\* for point in &self.history { avg.cpu_usage += point.cpu_usage; ... }
RECURSIVE sum_points(_, _)
sum_points(h, acc) ==
  IF h = <<>> THEN acc
  ELSE sum_points(Tail(h),
         [acc EXCEPT !.cpu_usage = @ + Head(h).cpu_usage,
                     !.memory_usage = @ + Head(h).memory_usage,
                     !.disk_usage = @ + Head(h).disk_usage,
                     !.network_usage = @ + Head(h).network_usage,
                     !.gpu_usage = @ + Head(h).gpu_usage])

\* for point in &self.history { peak.cpu_usage = peak.cpu_usage.max(point.cpu_usage); ... }
RECURSIVE max_points(_, _)
max_points(h, acc) ==
  IF h = <<>> THEN acc
  ELSE max_points(Tail(h),
         [acc EXCEPT !.cpu_usage = f64_max(@, Head(h).cpu_usage),
                     !.memory_usage = f64_max(@, Head(h).memory_usage),
                     !.disk_usage = f64_max(@, Head(h).disk_usage),
                     !.network_usage = f64_max(@, Head(h).network_usage),
                     !.gpu_usage = f64_max(@, Head(h).gpu_usage)])

\* (mutant) the sums are returned undivided
get_average_usage_undivided(h, ts) ==
  IF h = <<>> THEN None ELSE Some(sum_points(h, zero_point(ts)))

\* SystemMonitor::get_average_usage
get_average_usage(h, ts) ==
  IF h = <<>> THEN None
  ELSE LET count == Len(h)
           avg == sum_points(h, zero_point(ts))
       IN Some([avg EXCEPT !.cpu_usage = f64_div(@, count),
                           !.memory_usage = f64_div(@, count),
                           !.disk_usage = f64_div(@, count),
                           !.network_usage = f64_div(@, count),
                           !.gpu_usage = f64_div(@, count)])

\* SystemMonitor::get_peak_usage
get_peak_usage(h, ts) ==
  IF h = <<>> THEN None ELSE Some(max_points(h, zero_point(ts)))

GetAverageUsage ==
  /\ answer' = [NoAnswer EXCEPT !.op = "get_average_usage",
                                !.val = get_average_usage(history, now)]
  /\ UNCHANGED <<mon_initialized, config, history, last_update, now, arrivals, grown>>
  /\ UNCHANGED <<netvars, asyncvars, libvars, cfgvars>>

GetPeakUsage ==
  /\ answer' = [NoAnswer EXCEPT !.op = "get_peak_usage",
                                !.val = get_peak_usage(history, now)]
  /\ UNCHANGED <<mon_initialized, config, history, last_update, now, arrivals, grown>>
  /\ UNCHANGED <<netvars, asyncvars, libvars, cfgvars>>

\* ------------------------------------------------ thresholds, scheduling (monitor.rs)
\* (mutant) the comparison with the threshold is not strict
exceeds_or_equals(value, threshold) == value >= threshold

\* resources.cpu_usage_percent > self.config.cpu_threshold
exceeds(value, threshold) == value > threshold

\* format!("CPU usage ({:.1}%) exceeds threshold ({:.1}%)", value, threshold)
alert(category, value, threshold) ==
  [category |-> category, value |-> value, threshold |-> threshold]

\* SystemMonitor::check_thresholds
check_thresholds(c, r) ==
  (IF c.enable_cpu_monitoring /\ exceeds(r.cpu_usage_percent, c.cpu_threshold)
     THEN <<alert("CPU", r.cpu_usage_percent, c.cpu_threshold)>> ELSE <<>>)
  \o (IF c.enable_memory_monitoring /\ exceeds(memory_usage_percent(r), c.memory_threshold)
        THEN <<alert("Memory", memory_usage_percent(r), c.memory_threshold)>> ELSE <<>>)
  \o (IF c.enable_disk_monitoring /\ exceeds(disk_usage_percent(r), c.disk_threshold)
        THEN <<alert("Disk", disk_usage_percent(r), c.disk_threshold)>> ELSE <<>>)
  \o (IF c.enable_network_monitoring /\ exceeds(r.network_usage_percent, c.network_threshold)
        THEN <<alert("Network", r.network_usage_percent, c.network_threshold)>> ELSE <<>>)
  \o (IF c.enable_gpu_monitoring /\ exceeds(r.gpu_usage_percent, c.gpu_threshold)
        THEN <<alert("GPU", r.gpu_usage_percent, c.gpu_threshold)>> ELSE <<>>)

CheckThresholds(r) ==
  /\ answer' = [NoAnswer EXCEPT !.op = "check_thresholds", !.arg = r,
                                !.val = check_thresholds(config, r)]
  /\ UNCHANGED <<mon_initialized, config, history, last_update, now, arrivals, grown>>
  /\ UNCHANGED <<netvars, asyncvars, libvars, cfgvars>>

MemoryUsagePercent(r) ==
  /\ answer' = [NoAnswer EXCEPT !.op = "memory_usage_percent", !.arg = r,
                                !.val = memory_usage_percent(r)]
  /\ UNCHANGED <<mon_initialized, config, history, last_update, now, arrivals, grown>>
  /\ UNCHANGED <<netvars, asyncvars, libvars, cfgvars>>

DiskUsagePercent(r) ==
  /\ answer' = [NoAnswer EXCEPT !.op = "disk_usage_percent", !.arg = r,
                                !.val = disk_usage_percent(r)]
  /\ UNCHANGED <<mon_initialized, config, history, last_update, now, arrivals, grown>>
  /\ UNCHANGED <<netvars, asyncvars, libvars, cfgvars>>

\* (mutant) the interval must be exceeded, not reached
should_update_strict(lu, t, interval) == IF lu.some THEN t - lu.at > interval ELSE TRUE

\* SystemMonitor::should_update: last.elapsed() >= self.config.update_interval
should_update(lu, t, interval) == IF lu.some THEN t - lu.at >= interval ELSE TRUE

ShouldUpdate ==
  /\ answer' = [NoAnswer EXCEPT !.op = "should_update",
                                !.val = [due |-> should_update(last_update, now,
                                                                 config.update_interval)]]
  /\ UNCHANGED <<mon_initialized, config, history, last_update, now, arrivals, grown>>
  /\ UNCHANGED <<netvars, asyncvars, libvars, cfgvars>>

\* ------------------------------------------------ async_ops (monitor.rs)
\* AsyncSystemMonitor::new: sender: None; no channel and no task yet
AsyncRest ==
  /\ sender = FALSE
  /\ receiver = "none"
  /\ loop_pc = "none"
  /\ open_ticks = 0
  /\ published = <<>>
  /\ settled = FALSE

\* mpsc::UnboundedSender::is_closed: the receiving half was closed or dropped.
\* The other senders, dropped or not, do not enter into it.
is_closed(rx) == rx = "dropped"

\* (mutant) the body sends a sample on every tick that finds the channel open
body_sends_sample(tick) == <<tick>>

\* What the body of the loop sends on a tick that finds the channel open:
\* nothing, it holds only the is_closed test.
body_sends(tick) == <<>>

\* AsyncSystemMonitor::start_monitoring, for a monitor not yet started
StartMonitoring ==
  /\ loop_pc = "none"
  /\ sender' = TRUE
  /\ receiver' = "held"
  /\ loop_pc' = "await_tick"
  /\ UNCHANGED <<open_ticks, published, settled>>
  /\ UNCHANGED <<netvars, monvars, libvars, cfgvars>>

\* interval_timer.tick().await completes
LoopTick ==
  /\ loop_pc = "await_tick"
  /\ loop_pc' = "body"
  /\ UNCHANGED <<sender, receiver, open_ticks, published, settled>>
  /\ UNCHANGED <<netvars, monvars, libvars, cfgvars>>

\* if sender.is_closed() { break; }
LoopBody ==
  /\ loop_pc = "body"
  /\ IF is_closed(receiver)
       THEN /\ loop_pc' = "done"
            /\ UNCHANGED <<open_ticks, published>>
       ELSE /\ loop_pc' = "await_tick"
            /\ open_ticks' = IF open_ticks < MaxTicks THEN open_ticks + 1 ELSE open_ticks
            /\ published' = IF open_ticks < MaxTicks
                              THEN published \o body_sends(open_ticks + 1)
                              ELSE published
  /\ settled' = (settled \/ ~sender)
  /\ UNCHANGED <<sender, receiver>>
  /\ UNCHANGED <<netvars, monvars, libvars, cfgvars>>

\* AsyncSystemMonitor::stop_monitoring: self.sender = None
StopMonitoring ==
  /\ sender' = FALSE
  /\ settled' = (settled \/ loop_pc \in {"await_tick", "done"})
  /\ UNCHANGED <<receiver, loop_pc, open_ticks, published>>
  /\ UNCHANGED <<netvars, monvars, libvars, cfgvars>>

\* The consumer drops the receiver it was given.
DropReceiver ==
  /\ receiver = "held"
  /\ receiver' = "dropped"
  /\ settled' = (settled \/ loop_pc \in {"await_tick", "done"})
  /\ UNCHANGED <<sender, loop_pc, open_ticks, published>>
  /\ UNCHANGED <<netvars, monvars, libvars, cfgvars>>

\* ------------------------------------------------ connection handles
\* The handles in the caller's hands: the connections that create_connection
\* and get_connection returned (NetworkConnection is Clone)
Handles ==
  {hist[i].res.val : i \in {j \in 1..Len(hist) : hist[j].op \in {"create", "get"}
                                                   /\ hist[j].res.ok}}

\* handle.send(&NetworkMessage::new_binary(data))
HandleSend(t, h, data) ==
  /\ CanInvoke(t) /\ h \in Handles
  /\ UNCHANGED <<initialized, connections, tracing>>
  /\ \E o \in SendOutcomes(h, data) :
       Return(t, [Frame("handle_send", [id |-> h.id, data |-> data]) EXCEPT
                    !.calls = o.calls], o.res)

\* handle.receive()
HandleReceive(t, h) ==
  /\ CanInvoke(t) /\ h \in Handles
  /\ UNCHANGED <<initialized, connections, tracing>>
  /\ \E o \in ReceiveOutcomes(h) :
       Return(t, [Frame("handle_receive", h.id) EXCEPT !.calls = o.calls], o.res)

\* handle.close(): the handle has no reference to the registry
HandleClose(t, h) ==
  /\ CanInvoke(t) /\ h \in Handles
  /\ UNCHANGED <<initialized, connections, tracing>>
  /\ \E o \in CloseOutcomes(h) :
       Return(t, [Frame("handle_close", h.id) EXCEPT !.calls = o.calls], o.res)

\* ------------------------------------------------ CoreBaseError (error.rs)
ErrorKinds ==
  {"InitializationFailed", "ShutdownFailed", "InvalidString", "ConfigError",
   "NetworkError", "MonitorError", "OperationFailed", "InvalidParameter",
   "ResourceNotFound", "PermissionDenied", "Timeout", "Unknown"}

\* Strings, as their bytes
Texts == {<<116>>, <<117>>}

\* (mutant) a timeout is logged as an error
to_log_level_timeout_error(e) ==
  IF e.kind \in {"InitializationFailed", "ShutdownFailed"} THEN "Critical"
  ELSE IF e.kind \in {"MonitorError", "InvalidParameter", "ResourceNotFound"} THEN "Warning"
  ELSE "Error"

\* match self { .. }: one arm for each kind, none looks at the message
to_log_level(e) ==
  CASE e.kind = "InitializationFailed" -> "Critical"
    [] e.kind = "ShutdownFailed" -> "Critical"
    [] e.kind = "InvalidString" -> "Error"
    [] e.kind = "ConfigError" -> "Error"
    [] e.kind = "NetworkError" -> "Error"
    [] e.kind = "MonitorError" -> "Warning"
    [] e.kind = "OperationFailed" -> "Error"
    [] e.kind = "InvalidParameter" -> "Warning"
    [] e.kind = "ResourceNotFound" -> "Warning"
    [] e.kind = "PermissionDenied" -> "Error"
    [] e.kind = "Timeout" -> "Warning"
    [] e.kind = "Unknown" -> "Error"

ToLogLevel(t, e) ==
  /\ CanInvoke(t)
  /\ UNCHANGED <<initialized, connections, tracing>>
  /\ Return(t, Frame("to_log_level", e), Ok(to_log_level(e)))

\* --- ErrorHandler (error.rs)
\* The texts an error can carry: any String, a NUL byte included
ErrorTexts == Texts \cup {<<116, 0>>}
CoreBaseErrors == [kind : ErrorKinds, msg : ErrorTexts]

\* #[error("..: {0}")]: the text Display writes before the message of a kind
display_prefix(kind) ==
  CASE kind = "InitializationFailed" ->
         <<73, 110, 105, 116, 105, 97, 108, 105, 122, 97, 116, 105, 111, 110, 32, 102, 97, 105, 108, 101, 100, 58, 32>>
    [] kind = "ShutdownFailed" ->
         <<83, 104, 117, 116, 100, 111, 119, 110, 32, 102, 97, 105, 108, 101, 100, 58, 32>>
    [] kind = "InvalidString" ->
         <<73, 110, 118, 97, 108, 105, 100, 32, 115, 116, 114, 105, 110, 103, 58, 32>>
    [] kind = "ConfigError" ->
         <<67, 111, 110, 102, 105, 103, 117, 114, 97, 116, 105, 111, 110, 32, 101, 114, 114, 111, 114, 58, 32>>
    [] kind = "NetworkError" ->
         <<78, 101, 116, 119, 111, 114, 107, 32, 101, 114, 114, 111, 114, 58, 32>>
    [] kind = "MonitorError" ->
         <<83, 121, 115, 116, 101, 109, 32, 109, 111, 110, 105, 116, 111, 114, 32, 101, 114, 114, 111, 114, 58, 32>>
    [] kind = "OperationFailed" ->
         <<79, 112, 101, 114, 97, 116, 105, 111, 110, 32, 102, 97, 105, 108, 101, 100, 58, 32>>
    [] kind = "InvalidParameter" ->
         <<73, 110, 118, 97, 108, 105, 100, 32, 112, 97, 114, 97, 109, 101, 116, 101, 114, 58, 32>>
    [] kind = "ResourceNotFound" ->
         <<82, 101, 115, 111, 117, 114, 99, 101, 32, 110, 111, 116, 32, 102, 111, 117, 110, 100, 58, 32>>
    [] kind = "PermissionDenied" ->
         <<80, 101, 114, 109, 105, 115, 115, 105, 111, 110, 32, 100, 101, 110, 105, 101, 100, 58, 32>>
    [] kind = "Timeout" ->
         <<84, 105, 109, 101, 111, 117, 116, 32, 111, 99, 99, 117, 114, 114, 101, 100, 58, 32>>
    [] kind = "Unknown" ->
         <<85, 110, 107, 110, 111, 119, 110, 32, 101, 114, 114, 111, 114, 58, 32>>

\* impl Display for CoreBaseError (thiserror)
display(e) == display_prefix(e.kind) \o e.msg

\* format!("CoreBaseError: {}", error)
format_corebase_error(e) ==
  <<67, 111, 114, 101, 66, 97, 115, 101, 69, 114, 114, 111, 114, 58, 32>> \o display(e)

\* impl From<LogLevel> for c_int: level as c_int
level_code(level) ==
  CASE level = "Debug" -> 0
    [] level = "Info" -> 1
    [] level = "Warning" -> 2
    [] level = "Error" -> 3
    [] level = "Critical" -> 4

\* The decimal digits of n, as bytes
RECURSIVE decimal(_)
decimal(n) == IF n < 10 THEN <<48 + n>> ELSE decimal(n \div 10) \o <<48 + (n % 10)>>

\* NulError::to_string(): the position of the first NUL, counted from 0
nul_error_text(s) ==
  <<110, 117, 108, 32, 98, 121, 116, 101, 32, 102, 111, 117, 110, 100, 32, 105, 110, 32, 112, 114, 111, 118, 105, 100, 101, 100, 32, 100, 97, 116, 97, 32, 97, 116, 32, 112, 111, 115, 105, 116, 105, 111, 110, 58, 32>>
    \o decimal((CHOOSE i \in 1..Len(s) : s[i] = 0 /\ \A j \in 1..(i - 1) : s[j] # 0) - 1)

\* to_c_string(message)?: the error `?` returns from log
invalid_string(s) == [kind |-> "InvalidString", msg |-> nul_error_text(s)]

\* CoreBaseError::OperationFailed("Failed to log message".to_string())
failed_to_log ==
  [kind |-> "OperationFailed",
   msg |-> <<70, 97, 105, 108, 101, 100, 32, 116, 111, 32, 108, 111, 103, 32, 109, 101, 115, 115, 97, 103, 101>>]

\* Err(e) of an error whose message matters: the kind, and the message in val
ErrOf(e) == [ok |-> FALSE, val |-> e.msg, err |-> e.kind]

\* ErrorHandler::log(level, message) of a handler made by ErrorHandler::new()
\* (initialized: true): the results it can give and the call of the sink
\* cba_error_handler_log it made
LogOutcomes(level, message) ==
  IF ~to_c_string(message).ok
  THEN {[res |-> ErrOf(invalid_string(message)), calls |-> <<>>]}
  ELSE {[res |-> IF rc = 0 THEN Ok(Unit) ELSE ErrOf(failed_to_log),
         calls |-> <<[fn |-> "log", level |-> level_code(level),
                      message |-> message, rc |-> rc]>>] : rc \in StatusCodes}

\* ErrorHandler::handle_corebase_error(error, re_throw)
HandleCorebaseError(t, e, re_throw) ==
  /\ CanInvoke(t)
  /\ UNCHANGED <<initialized, connections, tracing>>
  /\ \E o \in LogOutcomes(to_log_level(e), format_corebase_error(e)) :
       Return(t, [Frame("handle_corebase_error", [error |-> e, re_throw |-> re_throw])
                    EXCEPT !.calls = o.calls],
              IF ~o.res.ok THEN o.res
              ELSE IF re_throw THEN ErrOf(e) ELSE Ok(Unit))

\* ------------------------------------------------ NetworkMessage (network.rs)
\* An Option<String> is a sequence of no string (None) or one (Some).
\* NetworkMessage::new_text / new_binary at the time ts
new_message(data, ts) ==
  [data |-> data, topic |-> <<>>, headers |-> <<>>, timestamp |-> ts, sender |-> <<>>]

\* (mutant) setting the topic forgets the sender
with_topic_only(m, topic) == [m EXCEPT !.topic = <<topic>>, !.sender = <<>>]

with_topic(m, topic) == [m EXCEPT !.topic = <<topic>>]

with_header(m, key, value) == [m EXCEPT !.headers = MapInsert(@, key, value)]

with_sender(m, sender_) == [m EXCEPT !.sender = <<sender_>>]

\* The message in hand: the one the last constructor or builder returned
InHand == last.op \in {"new_message", "with_topic", "with_header", "with_sender"}

NewMessage(t, data, ts) ==
  /\ CanInvoke(t)
  /\ UNCHANGED <<initialized, connections, tracing>>
  /\ Return(t, Frame("new_message", data), Ok(new_message(data, ts)))

WithTopic(t, topic) ==
  /\ CanInvoke(t) /\ InHand
  /\ UNCHANGED <<initialized, connections, tracing>>
  /\ Return(t, Frame("with_topic", topic), Ok(with_topic(last.res.val, topic)))

WithHeader(t, key, value) ==
  /\ CanInvoke(t) /\ InHand
  /\ UNCHANGED <<initialized, connections, tracing>>
  /\ Return(t, Frame("with_header", <<key, value>>),
            Ok(with_header(last.res.val, key, value)))

WithSender(t, sender_) ==
  /\ CanInvoke(t) /\ InHand
  /\ UNCHANGED <<initialized, connections, tracing>>
  /\ Return(t, Frame("with_sender", sender_), Ok(with_sender(last.res.val, sender_)))

\* ------------------------------------------------ ConfigManager (config.rs)
\* ConfigValue: the variant, with the text of a String and the number of an
\* Integer
ConfigString(text) == [tag |-> "String", text |-> text, int |-> 0]
ConfigInteger(i) == [tag |-> "Integer", text |-> <<>>, int |-> i]
ConfigNull == [tag |-> "Null", text |-> <<>>, int |-> 0]

\* ConfigManager::new(): initialized: true, cache: HashMap::new()
CfgRest == cache = <<>>

\* serde_json's text of a string: quoted, a control character escaped
RECURSIVE json_escape(_)
json_escape(text) ==
  IF text = <<>> THEN <<>>
  ELSE (IF Head(text) = 0 THEN <<92, 117, 48, 48, 48, 48>>
        ELSE IF Head(text) \in {34, 92} THEN <<92, Head(text)>>
        ELSE <<Head(text)>>) \o json_escape(Tail(text))

\* config_value_to_json_string(value): it fails for no value
config_value_to_json_string(value) ==
  CASE value.tag = "String" -> Ok(<<34>> \o json_escape(value.text) \o <<34>>)
    [] value.tag = "Integer" -> Ok(decimal(value.int))
    [] value.tag = "Null" -> Ok(<<110, 117, 108, 108>>)

\* The bytes are the digits of one JSON number
IsJsonInteger(bytes) ==
  /\ bytes # <<>>
  /\ \A i \in 1..Len(bytes) : bytes[i] \in 48..57
  /\ Len(bytes) > 1 => bytes[1] # 48

RECURSIVE digits_value(_)
digits_value(bytes) ==
  IF bytes = <<>> THEN 0
  ELSE digits_value(SubSeq(bytes, 1, Len(bytes) - 1)) * 10 + (bytes[Len(bytes)] - 48)

\* The bytes are a JSON string without escapes
IsJsonPlainString(bytes) ==
  /\ Len(bytes) >= 2
  /\ bytes[1] = 34 /\ bytes[Len(bytes)] = 34
  /\ \A i \in 2..(Len(bytes) - 1) : bytes[i] \notin {34, 92} /\ bytes[i] >= 32

\* serde_json::from_str and json_to_config_value, or the text itself when it
\* is no JSON
parse_config_value(bytes) ==
  IF bytes = <<110, 117, 108, 108>> THEN ConfigNull
  ELSE IF IsJsonInteger(bytes) THEN ConfigInteger(digits_value(bytes))
  ELSE IF IsJsonPlainString(bytes) THEN ConfigString(SubSeq(bytes, 2, Len(bytes) - 1))
  ELSE ConfigString(bytes)

\* Keys and file names, one with a NUL byte; the values of set; what the
\* native store writes into the buffer of get
ConfigKeys == {<<107>>, <<108>>, <<107, 0>>}
ConfigValues == {ConfigString(<<116>>), ConfigInteger(1), ConfigNull}
ConfigBuffers ==
  {<<49, 0, 0, 0>>, <<116, 0, 0, 0>>, <<34, 116, 34, 0>>, <<110, 117, 108, 108>>}

\* (mutant) the cache is not consulted
cache_get_bypassed(c, key) == <<>>

\* self.cache.get(key): no value or one
cache_get(c, key) == IF key \in DOMAIN c THEN <<c[key]>> ELSE <<>>

\* A call of the ConfigManager returns res (its methods take &mut self: one
\* call at a time); snap keeps the cache the call found.
ConfigReturn(t, op, arg, calls, res) ==
  /\ CanInvoke(t)
  /\ th' = th
  /\ last' = [t |-> t, op |-> op, arg |-> arg, res |-> res, calls |-> calls,
              snap |-> <<cache>>, pre |-> connections, inv |-> Len(hist)]
  /\ hist' = IF tracing THEN Append(hist, last') ELSE hist
  /\ UNCHANGED <<initialized, connections, tracing>>
  /\ UNCHANGED <<monvars, asyncvars, libvars>>

\* ConfigManager::load(filename)
ConfigLoad(t, filename) ==
  IF ~to_c_string(filename).ok
    THEN /\ cache' = cache
         /\ ConfigReturn(t, "config_load", filename, <<>>, to_c_string(filename))
    ELSE \E rc \in StatusCodes :
         /\ cache' = IF rc = 0 THEN <<>> ELSE cache
         /\ ConfigReturn(t, "config_load", filename,
                         <<[fn |-> "cba_config_load", rc |-> rc]>>,
                         IF rc = 0 THEN Ok(Unit) ELSE Err("ConfigError"))

\* ConfigManager::get(key); a value is returned in the list res.val
ConfigGet(t, key) ==
  IF cache_get(cache, key) # <<>>
    THEN /\ cache' = cache
         /\ ConfigReturn(t, "config_get", key, <<>>, Ok(cache_get(cache, key)))
  ELSE IF ~to_c_string(key).ok
    THEN /\ cache' = cache
         /\ ConfigReturn(t, "config_get", key, <<>>, to_c_string(key))
  ELSE \E rc \in StatusCodes, buffer \in ConfigBuffers :
         LET config_value == parse_config_value(until_nul(buffer))
             call == <<[fn |-> "cba_config_get_value", rc |-> rc]>>
         IN IF rc = 0
              THEN /\ cache' = MapInsert(cache, key, config_value)
                   /\ ConfigReturn(t, "config_get", key, call, Ok(<<config_value>>))
              ELSE /\ cache' = cache
                   /\ ConfigReturn(t, "config_get", key, call, Err("ConfigError"))

\* ConfigManager::set(key, value)
ConfigSet(t, key, value) ==
  LET arg == [key |-> key, value |-> value] IN
  IF ~to_c_string(key).ok
    THEN /\ cache' = cache
         /\ ConfigReturn(t, "config_set", arg, <<>>, to_c_string(key))
  ELSE IF ~config_value_to_json_string(value).ok
            \/ ~to_c_string(config_value_to_json_string(value).val).ok
    THEN /\ cache' = cache
         /\ ConfigReturn(t, "config_set", arg, <<>>,
                         IF ~config_value_to_json_string(value).ok
                           THEN Err("ConfigError") ELSE Err("InvalidString"))
  ELSE \E rc \in StatusCodes :
         /\ cache' = IF rc = 0 THEN MapInsert(cache, key, value) ELSE cache
         /\ ConfigReturn(t, "config_set", arg,
                         <<[fn |-> "cba_config_set_value", rc |-> rc]>>,
                         IF rc = 0 THEN Ok(Unit) ELSE Err("ConfigError"))

\* ConfigManager::clear_cache()
ClearCache(t) ==
  /\ cache' = <<>>
  /\ ConfigReturn(t, "clear_cache", Unit, <<>>, Ok(Unit))

\* ------------------------------------------------ NetworkProtocol (network.rs)
\* The variants, in the order of the declaration
NetworkProtocols ==
  <<"TCP", "UDP", "HTTP", "HTTPS", "WebSocket", "MQTT", "AMQP", "GRPC", "Custom">>

\* Values of a c_int: the codes, their neighbours and far ones
CInts == (-2..10) \cup {999, -999, 2147483647}

\* impl From<NetworkProtocol> for c_int: protocol as c_int, the discriminant
protocol_code(protocol) ==
  CASE protocol = "TCP" -> 0
    [] protocol = "UDP" -> 1
    [] protocol = "HTTP" -> 2
    [] protocol = "HTTPS" -> 3
    [] protocol = "WebSocket" -> 4
    [] protocol = "MQTT" -> 5
    [] protocol = "AMQP" -> 6
    [] protocol = "GRPC" -> 7
    [] protocol = "Custom" -> 8

\* (mutant) the arm of 8 is missing
protocol_from_without_custom(value) ==
  IF value \in 0..7 THEN NetworkProtocols[value + 1] ELSE "TCP"

\* impl From<c_int> for NetworkProtocol: match value { 0 => .. 8 => .., _ => TCP }
protocol_from(value) ==
  CASE value = 0 -> "TCP"
    [] value = 1 -> "UDP"
    [] value = 2 -> "HTTP"
    [] value = 3 -> "HTTPS"
    [] value = 4 -> "WebSocket"
    [] value = 5 -> "MQTT"
    [] value = 6 -> "AMQP"
    [] value = 7 -> "GRPC"
    [] value = 8 -> "Custom"
    [] OTHER -> "TCP"

\* c_int::from(protocol)
ProtocolCode(t, protocol) ==
  /\ CanInvoke(t)
  /\ UNCHANGED <<initialized, connections, tracing>>
  /\ Return(t, Frame("protocol_code", protocol), Ok(protocol_code(protocol)))

\* NetworkProtocol::from(value); snap keeps the protocol whose code the
\* value is, when the value is the one c_int::from has just returned
ProtocolFrom(t, value) ==
  /\ CanInvoke(t)
  /\ UNCHANGED <<initialized, connections, tracing>>
  /\ Return(t, [Frame("protocol_from", value) EXCEPT
                  !.snap = IF last.op = "protocol_code" /\ last.res.val = value
                           THEN <<last.arg>> ELSE <<>>],
            Ok(protocol_from(value)))

\* ------------------------------------------------ NetworkConfig (network.rs)
\* Numbers wider than 31 bits are written in 16-bit limbs, lowest first.
\* A std::time::Duration: whole seconds and the nanoseconds below a second
Limb == 65536
DurationsOfTimeout ==
  [secs : {0, 10, 4294967, 4294968}, nanos : {0, 295999999, 296000000}]

\* Duration::as_millis(): secs * 1000 + nanos / 1_000_000, a u128
as_millis(d) ==
  LET x0 == (d.secs % Limb) * 1000 + d.nanos \div 1000000
      x1 == (d.secs \div Limb) * 1000 + x0 \div Limb
  IN <<x0 % Limb, x1 % Limb, x1 \div Limb>>

\* `as u32` on a u128: the low 32 bits
as_u32(x) == <<x[1], x[2]>>

\* NetworkConfig::tcp(host, port): the given fields and ..Default::default()
tcp(host, port) ==
  [host |-> host, port |-> port, protocol |-> "TCP", timeout_ms |-> <<5000, 0>>,
   max_retries |-> 3, retry_delay_ms |-> 1000, use_ssl |-> FALSE, verify_ssl |-> TRUE,
   username |-> <<>>, password |-> <<>>, headers |-> <<>>, custom_params |-> <<>>]

with_timeout(cfg, d) == [cfg EXCEPT !.timeout_ms = as_u32(as_millis(d))]

\* The configuration in hand: the one the last constructor or builder returned
ConfigInHand == last.op \in {"tcp", "with_timeout"}

Tcp(t, host, port) ==
  /\ CanInvoke(t)
  /\ UNCHANGED <<initialized, connections, tracing>>
  /\ Return(t, Frame("tcp", <<>>), Ok(tcp(host, port)))

WithTimeout(t, d) ==
  /\ CanInvoke(t) /\ ConfigInHand
  /\ UNCHANGED <<initialized, connections, tracing>>
  /\ Return(t, [Frame("with_timeout", d) EXCEPT !.snap = <<last.res.val>>],
            Ok(with_timeout(last.res.val, d)))

\* ------------------------------------------------ library lifecycle (lib.rs)
LibIdle == [pc |-> "idle", op |-> "none", calls |-> <<>>, pre |-> FALSE]

NoLibCall == [t |-> "none", op |-> "none", res |-> Ok(Unit), calls |-> <<>>, pre |-> FALSE]

\* The process before any call: INIT: Once::new(), INITIALIZED: false
LibRest ==
  /\ INIT = "incomplete"
  /\ INITIALIZED = FALSE
  /\ natives = [error_init |-> 0, network_init |-> 0, shutdown |-> 0, shutdown_ok |-> 0]
  /\ instances = 0
  /\ lib = [t \in Threads |-> LibIdle]
  /\ lib_last = NoLibCall

\* One more invocation, counted up to MaxNativeCalls
Counted(n) == IF n < MaxNativeCalls THEN n + 1 ELSE n

\* (mutant) the closure runs on every call that finds no other call in it
call_once_runs_again(once) == once # "running"

\* Once::call_once runs its closure for the first caller only
call_once_runs(once) == once = "incomplete"

\* The lifecycle call of frame f returns res to thread t.  CoreBase::new
\* goes on from initialize()? to the four constructors, which all return Ok.
LibReturn(t, f, res) ==
  /\ lib' = [lib EXCEPT ![t] = LibIdle]
  /\ lib_last' = [t |-> t, op |-> f.op, res |-> res, calls |-> f.calls, pre |-> f.pre]
  /\ instances' = IF f.op = "new" /\ res.ok THEN instances + 1 ELSE instances

\* initialize(), called by itself (op = "initialize") or by CoreBase::new
\* (op = "new"): let mut result = Ok(()); INIT.call_once(|| ..); result
InitializeCall(t, op) ==
  /\ lib[t].pc = "idle"
  /\ op = "new" => instances < MaxInstances
  /\ UNCHANGED <<INITIALIZED, natives>>
  /\ UNCHANGED <<netvars, monvars, asyncvars, cfgvars>>
  /\ LET f == [LibIdle EXCEPT !.op = op, !.pre = INITIALIZED] IN
     IF call_once_runs(INIT)
       THEN /\ INIT' = "running"
            /\ lib' = [lib EXCEPT ![t] = [f EXCEPT !.pc = "init_error_handler"]]
            /\ UNCHANGED <<instances, lib_last>>
     ELSE IF INIT = "running"
       THEN /\ lib' = [lib EXCEPT ![t] = [f EXCEPT !.pc = "init_wait"]]
            /\ UNCHANGED <<INIT, instances, lib_last>>
     ELSE /\ LibReturn(t, f, Ok(Unit))
          /\ UNCHANGED INIT

\* let error_init = cba_error_handler_initialize();
InitErrorHandler(t) ==
  /\ lib[t].pc = "init_error_handler"
  /\ \E rc \in StatusCodes :
       lib' = [lib EXCEPT ![t].pc = "init_network",
                          ![t].calls = Append(@, [fn |-> "cba_error_handler_initialize",
                                                  rc |-> rc])]
  /\ natives' = [natives EXCEPT !.error_init = Counted(@)]
  /\ UNCHANGED <<INIT, INITIALIZED, instances, lib_last>>
  /\ UNCHANGED <<netvars, monvars, asyncvars, cfgvars>>

\* let network_init = cba_network_initialize();
\* if error_init == 0 && network_init == 0 { INITIALIZED = true } else { result = Err(..) }
InitNetwork(t) ==
  /\ lib[t].pc = "init_network"
  /\ natives' = [natives EXCEPT !.network_init = Counted(@)]
  /\ INIT' = "complete"
  /\ UNCHANGED <<netvars, monvars, asyncvars, cfgvars>>
  /\ \E rc \in StatusCodes :
       LET f == [lib[t] EXCEPT !.calls = Append(@, [fn |-> "cba_network_initialize",
                                                    rc |-> rc])]
           ok == f.calls[1].rc = 0 /\ rc = 0
       IN /\ INITIALIZED' = IF ok THEN TRUE ELSE INITIALIZED
          /\ LibReturn(t, f, IF ok THEN Ok(Unit) ELSE Err("InitializationFailed"))

\* call_once in a thread that found another thread inside the closure: it
\* blocks until the closure has run, and its own result is still Ok(())
InitWait(t) ==
  /\ lib[t].pc = "init_wait"
  /\ INIT = "complete"
  /\ LibReturn(t, lib[t], Ok(Unit))
  /\ UNCHANGED <<INIT, INITIALIZED, natives>>
  /\ UNCHANGED <<netvars, monvars, asyncvars, cfgvars>>

\* (mutant) the flag is cleared whatever the native shutdown returned
initialized_after_shutdown_cleared(rc) == FALSE

\* if result == 0 { INITIALIZED = false; .. }: the flag after a native
\* shutdown that returned rc
initialized_after_shutdown(rc) == rc # 0

\* impl Drop for CoreBase: let _ = shutdown(), however many instances are
\* alive after this one
drop_shuts_down(alive) == TRUE

\* shutdown(), called by itself (op = "shutdown") or by the drop of a
\* CoreBase instance (op = "drop"): if INITIALIZED { .. } else { Ok(()) }
ShutdownCall(t, op) ==
  /\ lib[t].pc = "idle"
  /\ op = "drop" => instances > 0
  /\ UNCHANGED <<INIT, INITIALIZED, natives>>
  /\ UNCHANGED <<netvars, monvars, asyncvars, cfgvars>>
  /\ LET f == [LibIdle EXCEPT !.op = op, !.pre = INITIALIZED]
         alive == IF op = "drop" THEN instances - 1 ELSE instances
     IN IF (op = "drop" => drop_shuts_down(alive)) /\ INITIALIZED
          THEN /\ lib' = [lib EXCEPT ![t] = [f EXCEPT !.pc = "shutdown_native"]]
               /\ instances' = alive
               /\ UNCHANGED lib_last
          ELSE /\ lib' = [lib EXCEPT ![t] = LibIdle]
               /\ lib_last' = [t |-> t, op |-> op, res |-> Ok(Unit), calls |-> <<>>,
                               pre |-> INITIALIZED]
               /\ instances' = alive

\* let result = cba_error_handler_shutdown(); if result == 0 { .. } else { Err(..) }
ShutdownNative(t) ==
  /\ lib[t].pc = "shutdown_native"
  /\ UNCHANGED INIT
  /\ UNCHANGED <<netvars, monvars, asyncvars, cfgvars>>
  /\ \E rc \in StatusCodes :
       LET f == [lib[t] EXCEPT !.calls = Append(@, [fn |-> "cba_error_handler_shutdown",
                                                    rc |-> rc])]
       IN /\ INITIALIZED' = (INITIALIZED /\ initialized_after_shutdown(rc))
          /\ natives' = [natives EXCEPT !.shutdown = Counted(@),
                                        !.shutdown_ok = IF rc = 0 THEN Counted(@) ELSE @]
          /\ LibReturn(t, f, IF rc = 0 THEN Ok(Unit) ELSE Err("ShutdownFailed"))

is_initialized == INITIALIZED

\* is_initialized() called by thread t
IsInitialized(t) ==
  /\ lib[t].pc = "idle"
  /\ lib_last' = [t |-> t, op |-> "is_initialized", res |-> Ok(is_initialized),
                  calls |-> <<>>, pre |-> INITIALIZED]
  /\ UNCHANGED <<INIT, INITIALIZED, natives, instances, lib>>
  /\ UNCHANGED <<netvars, monvars, asyncvars, cfgvars>>

LibStep(t) ==
  \/ InitializeCall(t, "initialize")
  \/ InitializeCall(t, "new")
  \/ InitErrorHandler(t)
  \/ InitNetwork(t)
  \/ ShutdownCall(t, "shutdown")
  \/ ShutdownCall(t, "drop")
  \/ ShutdownNative(t)
  \/ IsInitialized(t)

\* ------------------------------------------------ specifications
Step(t) ==
  \/ \E cfg \in NetworkConfigs : CreateTransport(t, cfg)
  \/ CreateInsert(t)
  \/ \E id \in GoodIds : GetConnection(t, id)
  \/ ConnectionCount(t)
  \/ \E id \in GoodIds : CloseLookup(t, id)
  \/ CloseTransport(t)
  \/ CloseRemove(t)
  \/ CloseAllSnapshot(t)
  \/ CloseAllNext(t)
  \/ CloseAllReturn(t)
  \/ \E data \in Payloads : BroadcastSnapshot(t, data)
  \/ BroadcastSend(t)
  \/ BroadcastReturn(t)

\* One caller at a time: the contract of each call.
Init == NetInit /\ hist = <<>> /\ tracing = FALSE /\ AsyncRest /\ LibRest /\ CfgRest /\ MonRest
Next == Step(MainThread)
Spec == Init /\ [][Next]_vars

\* Two callers sharing one NetworkManager, their calls recorded in hist.
\* The calls are those whose interleavings the registry lock is to order:
\* create_connection, close_connection, broadcast_message.
TracedConfigs == {c \in NetworkConfigs : c.port = 80}
TracedPayloads == {<<72>>}

InitTraced == NetInit /\ hist = <<>> /\ tracing = TRUE /\ AsyncRest /\ LibRest /\ CfgRest /\ MonRest
NextTraced ==
  \E t \in Threads :
    \/ \E cfg \in TracedConfigs : CreateTransport(t, cfg)
    \/ CreateInsert(t)
    \/ \E id \in GoodIds : CloseLookup(t, id)
    \/ CloseTransport(t)
    \/ CloseRemove(t)
    \/ \E data \in TracedPayloads : BroadcastSnapshot(t, data)
    \/ BroadcastSend(t)
    \/ BroadcastReturn(t)
SpecTraced == InitTraced /\ [][NextTraced]_vars

\* Two callers sharing one NetworkManager: every call that changes the
\* registry, and connection_count.
NextRegistry ==
  \E t \in Threads :
    \/ \E cfg \in TracedConfigs : CreateTransport(t, cfg)
    \/ CreateInsert(t)
    \/ \E id \in GoodIds : CloseLookup(t, id)
    \/ CloseTransport(t)
    \/ CloseRemove(t)
    \/ CloseAllSnapshot(t)
    \/ CloseAllNext(t)
    \/ CloseAllReturn(t)
    \/ ConnectionCount(t)
SpecRegistry == InitTraced /\ [][NextRegistry]_vars

\* One owner of a ConfigManager (its methods take &mut self), its calls
\* recorded in hist.
NextConfig ==
  \/ \E filename \in ConfigKeys : ConfigLoad(MainThread, filename)
  \/ \E key \in ConfigKeys : ConfigGet(MainThread, key)
  \/ \E key \in ConfigKeys, value \in ConfigValues : ConfigSet(MainThread, key, value)
  \/ ClearCache(MainThread)
SpecConfig == InitTraced /\ [][NextConfig]_vars

\* One owner of a SystemMonitor (its methods take &mut self).
InitMon == MonInit /\ NetInit /\ hist = <<>> /\ tracing = FALSE /\ AsyncRest /\ LibRest /\ CfgRest
NextMon ==
  \/ \E rd \in Readings : GetSystemResources(rd)
  \/ \E c \in MonitoringConfigs : SetConfig(c)
  \/ ClearHistory
  \/ Tick
SpecMon == InitMon /\ [][NextMon]_vars

\* The aggregates of a history.  The adapter's answers are whatever the
\* native side returns: among them one whose values are negative.
NegativeReading ==
  [cpu |-> -1, mem_available |-> 10, mem_total |-> 8, mem_rc |-> 0,
   disk_available |-> 0, disk_total |-> 0, disk_rc |-> 1, network |-> -1, gpu |-> -1]
AggregateReadings == Readings \cup {NegativeReading}

InitAggregate == MonRest /\ NetInit /\ hist = <<>> /\ tracing = FALSE /\ AsyncRest /\ LibRest /\ CfgRest
NextAggregate ==
  \/ \E rd \in AggregateReadings : GetSystemResources(rd)
  \/ ClearHistory
  \/ GetAverageUsage
  \/ GetPeakUsage
SpecAggregate == InitAggregate /\ [][NextAggregate]_vars

\* The pure functions of a snapshot and a configuration: every combination
\* of enable flags, snapshots with each percentage at and above its threshold.
PolicyConfigs ==
  {[MonitoringConfigDefault EXCEPT
      !.enable_cpu_monitoring = f[1], !.enable_memory_monitoring = f[2],
      !.enable_disk_monitoring = f[3], !.enable_network_monitoring = f[4],
      !.enable_gpu_monitoring = f[5],
      !.memory_threshold = 75, !.disk_threshold = 75] : f \in [1..5 -> BOOLEAN]}

\* <<available, total>>: three quarters used, all used, nothing there, and
\* more available than there is
ByteCounts == {<<2, 8>>, <<0, 8>>, <<0, 0>>, <<10, 8>>}

Snapshots ==
  {[cpu_usage_percent |-> cpu, available_memory_bytes |-> mem[1], total_memory_bytes |-> mem[2],
    available_disk_bytes |-> disk[1], total_disk_bytes |-> disk[2],
    network_usage_percent |-> net, gpu_usage_percent |-> gpu, timestamp |-> 0] :
     cpu \in {80, 85}, mem \in ByteCounts, disk \in ByteCounts, net \in {80, 85}, gpu \in {80, 85}}

\* The snapshots that differ in their byte counts only
ByteSnapshots ==
  {r \in Snapshots : r.cpu_usage_percent = 80 /\ r.network_usage_percent = 80
                       /\ r.gpu_usage_percent = 80}

InitPolicy ==
  /\ NetInit /\ hist = <<>> /\ tracing = FALSE /\ AsyncRest /\ LibRest /\ CfgRest
  /\ mon_initialized = TRUE
  /\ config \in PolicyConfigs
  /\ history = <<>> /\ last_update = None /\ now = 0
  /\ arrivals = <<>> /\ grown = FALSE /\ answer = NoAnswer
NextPolicy ==
  \/ \E r \in Snapshots : CheckThresholds(r)
  \/ \E r \in ByteSnapshots : MemoryUsagePercent(r)
  \/ \E r \in ByteSnapshots : DiskUsagePercent(r)
SpecPolicy == InitPolicy /\ [][NextPolicy]_vars

\* Sampling under every combination of enable flags and every capacity.
SampleConfigs ==
  {[c EXCEPT !.history_size = h] : c \in PolicyConfigs, h \in 0..MaxHistory}

InitSample ==
  /\ NetInit /\ hist = <<>> /\ tracing = FALSE /\ AsyncRest /\ LibRest /\ CfgRest
  /\ mon_initialized = TRUE
  /\ config \in SampleConfigs
  /\ history = <<>> /\ last_update = None /\ now = 0
  /\ arrivals = <<>> /\ grown = FALSE /\ answer = NoAnswer
NextSample ==
  \/ \E rd \in Readings : GetSystemResources(rd)
  \/ Tick
SpecSample == InitSample /\ [][NextSample]_vars

\* The scheduling gate: intervals of zero, one and more seconds.
SchedConfigs ==
  {[MonitoringConfigDefault EXCEPT !.update_interval = i, !.history_size = MaxHistory] :
     i \in 0..(MaxTime + 1)}

InitSched ==
  /\ NetInit /\ hist = <<>> /\ tracing = FALSE /\ AsyncRest /\ LibRest /\ CfgRest
  /\ mon_initialized = TRUE
  /\ config \in SchedConfigs
  /\ history = <<>> /\ last_update = None /\ now = 0
  /\ arrivals = <<>> /\ grown = FALSE /\ answer = NoAnswer
NextSched ==
  \/ \E rd \in Readings : GetSystemResources(rd)
  \/ \E c \in SchedConfigs : SetConfig(c)
  \/ ClearHistory
  \/ Tick
  \/ ShouldUpdate
SpecSched == InitSched /\ [][NextSched]_vars

\* An AsyncSystemMonitor, its consumer, and the task it spawns.  The timer
\* keeps ticking and the runtime keeps scheduling the task: both steps of the
\* loop are taken whenever they stay possible.
InitAsync == MonRest /\ NetInit /\ hist = <<>> /\ tracing = FALSE /\ AsyncRest /\ LibRest /\ CfgRest
NextAsync ==
  \/ StartMonitoring
  \/ LoopTick
  \/ LoopBody
  \/ StopMonitoring
  \/ DropReceiver
  \/ \E rd \in Readings : GetSystemResources(rd)
SpecAsync ==
  InitAsync /\ [][NextAsync]_vars /\ WF_vars(LoopTick) /\ WF_vars(LoopBody)

\* One caller of the timeout-wrapped operations.
NextAsyncNet ==
  \/ \E cfg \in AsyncConfigs, took \in Durations : CreateAsyncTransport(MainThread, cfg, took)
  \/ CreateAsyncInsert(MainThread)
  \/ \E id \in GoodIds, data \in Payloads : SendAsyncLookup(MainThread, id, data)
  \/ \E took \in Durations : SendAsyncTransport(MainThread, took)
  \/ \E id \in GoodIds : ReceiveAsyncLookup(MainThread, id)
  \/ \E took \in Durations : ReceiveAsyncTransport(MainThread, took)
SpecAsyncNet == Init /\ [][NextAsyncNet]_vars

\* Two threads on one NetworkManager: one makes the calls that reach the
\* transport, each transport call a step of its own, the other reads the
\* registry meanwhile; the steps that take the registry lock wait for it.
LockConfigs == {c \in NetworkConfigs : c.host = <<104>> /\ c.port = 80}
NextLocks ==
  \/ /\ LockFree(MainThread)
     /\ \/ CreateInsert(MainThread)
        \/ \E id \in GoodIds : CloseLookup(MainThread, id)
        \/ CloseRemove(MainThread)
        \/ \E id \in GoodIds : SendLookup(MainThread, id, <<72>>)
        \/ \E id \in GoodIds : ReceiveLookup(MainThread, id)
        \/ BroadcastSnapshot(MainThread, <<72>>)
  \/ \E cfg \in LockConfigs : CreateEnter(MainThread, cfg)
  \/ CreateCall(MainThread)
  \/ CloseTransport(MainThread)
  \/ SendTransport(MainThread)
  \/ ReceiveTransport(MainThread)
  \/ BroadcastSend(MainThread)
  \/ BroadcastReturn(MainThread)
  \/ \E u \in Threads \ {MainThread} :
       /\ LockFree(u)
       /\ \/ \E id \in GoodIds : GetConnection(u, id)
          \/ ListConnections(u)
          \/ ConnectionCount(u)
SpecLocks == Init /\ [][NextLocks]_vars

\* One caller that creates and closes connections and sends and receives
\* through the manager.
NextRouted ==
  \/ \E cfg \in NetworkConfigs : CreateTransport(MainThread, cfg)
  \/ CreateInsert(MainThread)
  \/ \E id \in GoodIds : CloseLookup(MainThread, id)
  \/ CloseTransport(MainThread)
  \/ CloseRemove(MainThread)
  \/ \E id \in GoodIds, data \in Payloads : SendLookup(MainThread, id, data)
  \/ SendTransport(MainThread)
  \/ \E id \in GoodIds : ReceiveLookup(MainThread, id)
  \/ ReceiveTransport(MainThread)
SpecRouted == Init /\ [][NextRouted]_vars

\* The end of a NetworkManager: closes, then its drop, which is its owner's
\* last call; a drop that has started runs on.  The registries are those
\* that successful create_connection calls leave behind.
Registries ==
  UNION {[ids -> {NewConnection(id, cfg) : id \in GoodIds,
                                           cfg \in {c \in NetworkConfigs : to_c_string(c.host).ok}}]
           : ids \in SUBSET GoodIds}
InitDrop ==
  /\ initialized = TRUE
  /\ connections \in {m \in Registries : \A id \in DOMAIN m : m[id].id = id}
  /\ th = [t \in Threads |-> Idle]
  /\ last = NoCall
  /\ hist = <<>> /\ tracing = FALSE /\ AsyncRest /\ LibRest /\ CfgRest /\ MonRest
NextDrop ==
  /\ last.op # "drop"
  /\ \/ \E id \in GoodIds : CloseLookup(MainThread, id)
     \/ CloseTransport(MainThread)
     \/ CloseRemove(MainThread)
     \/ CloseAllNext(MainThread)
     \/ CloseAllReturn(MainThread)
     \/ DropSnapshot(MainThread)
DropRuns ==
  /\ th[MainThread].op = "drop"
  /\ \/ CloseAllNext(MainThread)
     \/ CloseTransport(MainThread)
     \/ CloseRemove(MainThread)
     \/ CloseAllReturn(MainThread)
SpecDrop ==
  InitDrop /\ [][NextDrop]_vars /\ WF_<<th[MainThread].pc, th[MainThread].todo>>(DropRuns)

\* One caller with the handles the manager gave it, its calls recorded in
\* hist: the handle's own send, receive and close beside the manager's calls.
NextHandle ==
  \/ \E cfg \in TracedConfigs : CreateTransport(MainThread, cfg)
  \/ CreateInsert(MainThread)
  \/ \E id \in GoodIds : GetConnection(MainThread, id)
  \/ ConnectionCount(MainThread)
  \/ \E id \in GoodIds : CloseLookup(MainThread, id)
  \/ CloseTransport(MainThread)
  \/ CloseRemove(MainThread)
  \/ \E h \in Handles, data \in Payloads \cup {<<255, 0>>} : HandleSend(MainThread, h, data)
  \/ \E h \in Handles : HandleReceive(MainThread, h)
  \/ \E h \in Handles : HandleClose(MainThread, h)
SpecHandle == InitTraced /\ [][NextHandle]_vars

\* The values of the binding: errors and their severity, messages and
\* their builders.
NextValues ==
  \/ \E e \in [kind : ErrorKinds, msg : Texts] : ToLogLevel(MainThread, e)
  \/ \E data \in Payloads, ts \in 0..MaxTime : NewMessage(MainThread, data, ts)
  \/ \E topic \in Texts : WithTopic(MainThread, topic)
  \/ \E key \in Texts, value \in Texts : WithHeader(MainThread, key, value)
  \/ \E s \in Texts : WithSender(MainThread, s)
  \/ \E host \in Hosts, port \in Ports : Tcp(MainThread, host, port)
  \/ \E d \in DurationsOfTimeout : WithTimeout(MainThread, d)
  \/ \E e \in CoreBaseErrors, re_throw \in BOOLEAN :
       HandleCorebaseError(MainThread, e, re_throw)
  \/ \E i \in DOMAIN NetworkProtocols : ProtocolCode(MainThread, NetworkProtocols[i])
  \/ \E value \in CInts : ProtocolFrom(MainThread, value)
SpecValues == Init /\ [][NextValues]_vars

\* The lifecycle calls of one thread, and of two threads (where a call of
\* initialize() can find the other thread inside the closure and wait).
NextLib == LibStep(MainThread)
SpecLib == Init /\ [][NextLib]_vars

NextLibThreads == \E t \in Threads : LibStep(t) \/ InitWait(t)
SpecLibThreads == Init /\ [][NextLibThreads]_vars

\* ------------------------------------------------ properties
Quiescent == \A t \in Threads : th[t].pc = "idle"

\* The call op has just returned: with one caller, no step has been taken since.
Returned(op) == Quiescent /\ last.op = op

\* The transport calls of the last call, and what they returned.
TransportGaveId(c) == Len(c.calls) = 1 /\ c.calls[1].fn = "create" /\ c.calls[1].rc = 0
TransportGaveNull(c) == Len(c.calls) = 1 /\ c.calls[1].fn = "create" /\ c.calls[1].rc # 0

\* C1: when create_connection returns a connection for the id the transport
\* gave, get_connection(id) right after it returns that same connection: same
\* id, the config passed in, state Connected.  A well-formed id from the
\* transport always makes create_connection return a connection.
C1_CreateThenGet ==
  Returned("create") =>
    /\ last.res.ok =>
         LET c == last.res.val IN
         /\ TransportGaveId(last) /\ c.id = last.calls[1].id
         /\ c.config = last.arg
         /\ c.state = "Connected"
         /\ get_connection(connections, c.id).ok
         /\ get_connection(connections, c.id).val = c
    /\ (TransportGaveId(last) /\ IsUtf8(last.calls[1].id)) => last.res.ok

\* A connection was created while another one was registered.
C1_Witness ==
  /\ Returned("create") /\ last.res.ok
  /\ DOMAIN last.pre # {}
  /\ connection_count = 2

\* C2: when the transport returns a null id, create_connection returns
\* NetworkError and the registry is what it was before the call.
C2_CreateFailureKeepsRegistry ==
  (Returned("create") /\ TransportGaveNull(last)) =>
    /\ IsErr(last.res, "NetworkError")
    /\ connections = last.pre

C2_Witness ==
  /\ Returned("create") /\ TransportGaveNull(last)
  /\ DOMAIN last.pre # {}

\* C3: close_connection(id) for an id that is not registered returns
\* ResourceNotFound, makes no transport call and leaves the registry as it was.
C3_CloseUnknown ==
  (Returned("close") /\ last.arg \notin DOMAIN last.pre) =>
    /\ IsErr(last.res, "ResourceNotFound")
    /\ last.calls = <<>>
    /\ connections = last.pre

C3_Witness ==
  /\ Returned("close") /\ last.arg \notin DOMAIN last.pre
  /\ DOMAIN last.pre # {}

\* C4: close_connection(id) on a registered id calls the transport close once;
\* if it succeeds the call returns Ok and exactly that entry is removed; if it
\* fails the call returns NetworkError and the registry, the entry included,
\* is unchanged.
C4_CloseRemovesIffTransportOk ==
  (Returned("close") /\ last.arg \in DOMAIN last.pre) =>
    /\ Len(last.calls) = 1
    /\ last.calls[1].fn = "close" /\ last.calls[1].id = last.arg
    /\ IF last.calls[1].rc = 0
         THEN last.res.ok /\ last.arg \notin DOMAIN connections
              /\ DOMAIN connections = DOMAIN last.pre \ {last.arg}
              /\ \A k \in DOMAIN connections : connections[k] = last.pre[k]
         ELSE IsErr(last.res, "NetworkError") /\ last.arg \in DOMAIN connections
              /\ connections = last.pre

\* A close failed in the transport and the entry is still there to retry.
C4_Witness ==
  /\ Returned("close") /\ IsErr(last.res, "NetworkError")
  /\ last.arg \in DOMAIN connections

\* C5 (as claimed): once close_all_connections has returned, the registry is
\* empty, however many transport closes failed.
C5_CloseAllEmptiesRegistry ==
  Returned("close_all") => connection_count = 0

\* C6: close_all_connections calls the transport close for every id of its
\* snapshot, in the snapshot's order, whatever the earlier closes returned,
\* and returns Ok.
C6_CloseAllAttemptsAll ==
  Returned("close_all") =>
    /\ last.res.ok
    /\ last.snap \in Orders(DOMAIN last.pre)
    /\ Len(last.calls) = Len(last.snap)
    /\ \A i \in 1..Len(last.snap) :
         last.calls[i].fn = "close" /\ last.calls[i].id = last.snap[i]

\* The first of two closes failed and the second was still made.
C6_Witness ==
  /\ Returned("close_all")
  /\ Len(last.calls) = 2
  /\ last.calls[1].rc # 0

FailedSends(calls) ==
  LET Bad(c) == c.rc # 0
      bad == SelectSeq(calls, Bad)
  IN [i \in 1..Len(bad) |-> bad[i].id]

\* C7: broadcast_message sends to every connection of its snapshot of the
\* registry, in order and whatever the earlier sends returned, returns the ids
\* whose send failed (all of them when the payload cannot be marshalled, in
\* which case no transport call is made), and leaves the registry unchanged.
C7_BroadcastCollectsFailures ==
  Returned("broadcast") =>
    /\ last.res.ok
    /\ last.snap \in list_connections(last.pre)
    /\ connections = last.pre
    /\ IF IsUtf8(last.arg) /\ ~HasNul(last.arg)
         THEN /\ Len(last.calls) = Len(last.snap)
              /\ \A i \in 1..Len(last.snap) :
                   last.calls[i].fn = "send" /\ last.calls[i].id = last.snap[i].id
              /\ last.res.val = FailedSends(last.calls)
         ELSE /\ last.calls = <<>>
              /\ last.res.val = [i \in 1..Len(last.snap) |-> last.snap[i].id]

\* Of two connections the first send failed, the second succeeded, and the
\* failing one is reported and still registered.
C7_Witness ==
  /\ Returned("broadcast")
  /\ Len(last.calls) = 2
  /\ last.calls[1].rc # 0 /\ last.calls[2].rc = 0
  /\ last.res.val = <<last.snap[1].id>>
  /\ last.snap[1].id \in DOMAIN connections

\* The effect of one call executed alone on registry m, and whether the
\* result it returned is one it can return there (the transport's answers
\* are free).
CallAlone(c, m) ==
  CASE c.op = "create" ->
         IF c.res.ok
           THEN [ok |-> c.res.val = NewConnection(c.res.val.id, c.arg),
                 m |-> MapInsert(m, c.res.val.id, c.res.val)]
           ELSE [ok |-> TRUE, m |-> m]
    [] c.op = "close" ->
         IF c.res.ok THEN [ok |-> c.arg \in DOMAIN m, m |-> MapRemove(m, c.arg)]
         ELSE IF c.res.err = "ResourceNotFound" THEN [ok |-> c.arg \notin DOMAIN m, m |-> m]
         ELSE [ok |-> c.arg \in DOMAIN m, m |-> m]
    [] c.op = "broadcast" ->
         [ok |-> c.res.ok /\ SeqToSet(c.res.val) \subseteq DOMAIN m, m |-> m]
    [] OTHER -> [ok |-> FALSE, m |-> m]

RECURSIVE RunAlone(_, _)
RunAlone(cs, m) ==
  IF cs = <<>> THEN [ok |-> TRUE, m |-> m]
  ELSE LET r == CallAlone(Head(cs), m) IN
       IF r.ok THEN RunAlone(Tail(cs), r.m) ELSE [ok |-> FALSE, m |-> m]

\* Call number x of hist had returned before call number y was invoked.
ReturnedBefore(x, y) == x <= hist[y].inv

\* C8 (as claimed): the calls that have returned can be put in one order,
\* which keeps every call that returned before another was invoked ahead of
\* it, such that executing them one at a time in that order gives each call
\* the result it returned and ends in the registry as it is.
C8_Linearizable ==
  Quiescent =>
    \E o \in Orders(1..Len(hist)) :
      /\ \A i, j \in 1..Len(hist) : (i < j) => ~ReturnedBefore(o[j], o[i])
      /\ LET r == RunAlone([i \in 1..Len(hist) |-> hist[o[i]]], <<>>) IN
         r.ok /\ r.m = connections

\* The last n elements of s (all of s when it is shorter).
Suffix(s, n) ==
  IF Len(s) <= n THEN s ELSE [i \in 1..n |-> s[Len(s) - n + i]]

IsSuffix(s, of) == Len(s) <= Len(of) /\ s = Suffix(of, Len(s))

\* C9: the history never holds more than config.history_size samples, and it
\* is always the newest of the samples taken since it was last empty: the
\* evicted ones are the oldest.
C9_HistoryBounded ==
  /\ Len(history) <= config.history_size
  /\ IsSuffix(history, arrivals)

\* Samples have been evicted from a full history of at least two.
C9_Witness ==
  /\ Len(history) = config.history_size
  /\ Len(history) >= 2
  /\ Len(arrivals) > Len(history)

\* C10: with history_size = capacity not raised since the history was empty,
\* after capacity + k samples get_history is the last capacity samples in
\* their arrival order (and all of them while there are fewer).
C10_HistoryIsLastCapacity ==
  ~grown => get_history = Suffix(arrivals, config.history_size)

\* capacity + 2 samples, no two of them equal, went into a history of capacity 2.
C10_Witness ==
  /\ ~grown
  /\ config.history_size = 2
  /\ Len(arrivals) = config.history_size + 2
  /\ \A i, j \in 1..Len(arrivals) : arrivals[i] = arrivals[j] => i = j

\* The sum of field f over the first n samples of h
RECURSIVE FieldSum(_, _, _)
FieldSum(h, f, n) == IF n = 0 THEN 0 ELSE FieldSum(h, f, n - 1) + h[n][f]

\* C11: get_average_usage() is none on an empty history; otherwise each of
\* its five usage fields is the arithmetic mean of that field over the
\* samples now in the history (to the last unit of the number format).
C11_AverageIsMean ==
  answer.op = "get_average_usage" =>
    IF history = <<>> THEN answer.val = None
    ELSE /\ answer.val.some
         /\ \A f \in UsageFields :
              LET n == Len(history)
                  total == FieldSum(history, f, n)
                  mean == answer.val.at[f]
              IN n * mean <= total /\ total < n * (mean + 1)

C11_Witness ==
  /\ answer.op = "get_average_usage"
  /\ Len(history) = 2
  /\ history[1].cpu_usage = 10 /\ history[2].cpu_usage = 30
  /\ answer.val.at.cpu_usage = 20 /\ answer.val.at.memory_usage = 50

\* C12: get_peak_usage() is none on an empty history; otherwise each of its
\* five usage fields is the maximum of that field over the samples now in
\* the history, whatever the sample values.
C12_PeakIsMaximum ==
  answer.op = "get_peak_usage" =>
    IF history = <<>> THEN answer.val = None
    ELSE /\ answer.val.some
         /\ \A f \in UsageFields :
              /\ \E i \in 1..Len(history) : answer.val.at[f] = history[i][f]
              /\ \A i \in 1..Len(history) : answer.val.at[f] >= history[i][f]

\* The categories in the order of the alerts, and what check_thresholds
\* compares for each.
Categories == <<"CPU", "Memory", "Disk", "Network", "GPU">>

Enabled(c, cat) ==
  CASE cat = "CPU" -> c.enable_cpu_monitoring
    [] cat = "Memory" -> c.enable_memory_monitoring
    [] cat = "Disk" -> c.enable_disk_monitoring
    [] cat = "Network" -> c.enable_network_monitoring
    [] cat = "GPU" -> c.enable_gpu_monitoring

Threshold(c, cat) ==
  CASE cat = "CPU" -> c.cpu_threshold
    [] cat = "Memory" -> c.memory_threshold
    [] cat = "Disk" -> c.disk_threshold
    [] cat = "Network" -> c.network_threshold
    [] cat = "GPU" -> c.gpu_threshold

\* The measured percentage of a category, the derived ones from the byte counts
Percentage(r, cat) ==
  CASE cat = "CPU" -> r.cpu_usage_percent
    [] cat = "Memory" ->
         IF r.total_memory_bytes = 0 THEN 0
         ELSE ((r.total_memory_bytes - r.available_memory_bytes) * 100) \div r.total_memory_bytes
    [] cat = "Disk" ->
         IF r.total_disk_bytes = 0 THEN 0
         ELSE ((r.total_disk_bytes - r.available_disk_bytes) * 100) \div r.total_disk_bytes
    [] cat = "Network" -> r.network_usage_percent
    [] cat = "GPU" -> r.gpu_usage_percent

\* C13: check_thresholds gives one alert for exactly the enabled categories
\* whose percentage is strictly above the threshold, in the order CPU,
\* memory, disk, network, GPU.
C13_AlertsForEnabledAbove ==
  answer.op = "check_thresholds" =>
    LET over(cat) == /\ Enabled(config, cat)
                     /\ Percentage(answer.arg, cat) > Threshold(config, cat)
        due == SelectSeq(Categories, over)
    IN /\ Len(answer.val) = Len(due)
       /\ \A i \in 1..Len(due) : answer.val[i].category = due[i]

\* One alert, for the CPU, on a snapshot whose memory is at its threshold and
\* whose GPU is above a threshold that is disabled.
C13_Witness ==
  /\ answer.op = "check_thresholds"
  /\ Len(answer.val) = 1 /\ answer.val[1].category = "CPU"
  /\ config.enable_memory_monitoring /\ memory_usage_percent(answer.arg) = config.memory_threshold
  /\ ~config.enable_gpu_monitoring /\ answer.arg.gpu_usage_percent > config.gpu_threshold

\* C14: memory_usage_percent is (total - available) / total * 100 when
\* total > 0 and 0 when total is 0; disk_usage_percent likewise.
C14_UsagePercent ==
  /\ answer.op = "memory_usage_percent" =>
       LET total == answer.arg.total_memory_bytes
           available == answer.arg.available_memory_bytes
       IN /\ total > 0 => answer.val * total = (total - available) * 100
          /\ total = 0 => answer.val = 0
  /\ answer.op = "disk_usage_percent" =>
       LET total == answer.arg.total_disk_bytes
           available == answer.arg.available_disk_bytes
       IN /\ total > 0 => answer.val * total = (total - available) * 100
          /\ total = 0 => answer.val = 0

C14_Witness ==
  /\ answer.op = "memory_usage_percent"
  /\ answer.arg.total_memory_bytes = 8 /\ answer.arg.available_memory_bytes = 2
  /\ answer.val = 75

\* What a disabled category leaves in the snapshot
DisabledAreZero(c, r) ==
  /\ ~c.enable_cpu_monitoring => r.cpu_usage_percent = 0
  /\ ~c.enable_memory_monitoring => r.available_memory_bytes = 0 /\ r.total_memory_bytes = 0
  /\ ~c.enable_disk_monitoring => r.available_disk_bytes = 0 /\ r.total_disk_bytes = 0
  /\ ~c.enable_network_monitoring => r.network_usage_percent = 0
  /\ ~c.enable_gpu_monitoring => r.gpu_usage_percent = 0

AdapterOf(cat) ==
  CASE cat = "CPU" -> "cba_monitor_get_cpu_usage"
    [] cat = "Memory" -> "cba_monitor_get_memory_usage"
    [] cat = "Disk" -> "cba_monitor_get_disk_usage"
    [] cat = "Network" -> "cba_monitor_get_network_usage"
    [] cat = "GPU" -> "cba_monitor_get_gpu_usage"

\* C15: a successful get_system_resources() queries the adapter for the
\* enabled categories only, returns a snapshot whose disabled categories are
\* zero, appends the projection of that snapshot to the end of the history,
\* evicting from the front what is over capacity, and records the time of
\* the sample as last_update.
C15_SampleStep ==
  [][(answer'.op = "get_system_resources" /\ arrivals' # arrivals) =>
       LET r == answer'.val.val
           appended == Append(history, MonitoringDataPoint(r))
       IN /\ answer'.val.ok
          /\ \A i \in 1..5 :
               Enabled(config, Categories[i]) <=>
                 (\E k \in 1..Len(answer'.queried) : answer'.queried[k] = AdapterOf(Categories[i]))
          /\ Len(answer'.queried) <= 5
          /\ DisabledAreZero(config, r)
          /\ history' = Suffix(appended, config.history_size)
          /\ last_update' = Some(now)
          /\ r.timestamp = now]_vars

\* A sample taken with the CPU disabled went into a full history of two and
\* evicted the oldest.
C15_Witness ==
  /\ answer.op = "get_system_resources"
  /\ ~config.enable_cpu_monitoring /\ config.enable_network_monitoring
  /\ answer.val.val.cpu_usage_percent = 0 /\ answer.val.val.network_usage_percent = 25
  /\ Len(history) = 2 /\ Len(arrivals) = 3
  /\ history[2] = MonitoringDataPoint(answer.val.val)
  /\ last_update = Some(1)

\* C16: should_update() is true exactly when no sample was ever taken or the
\* time since the last sample is at least config.update_interval; only a
\* sample moves the time of the last sample (clear_history and set_config do
\* not), and it starts as none.
C16_ShouldUpdate ==
  [][/\ answer'.op = "should_update" =>
          answer'.val.due = (\/ ~last_update'.some
                             \/ now' - last_update'.at >= config'.update_interval)
     /\ last_update' # last_update => answer'.op = "get_system_resources"
     /\ (answer'.op = "get_system_resources" /\ arrivals' # arrivals) =>
          last_update' = Some(now)
     /\ (arrivals # <<>> \/ history # <<>>) => last_update.some]_vars

\* should_update() answers false after clear_history, the last sample being
\* less than an interval old.
C16_Witness ==
  /\ answer.op = "should_update" /\ ~answer.val.due
  /\ arrivals = <<>> /\ last_update.some
  /\ now - last_update.at = 1 /\ config.update_interval = 2

\* stop_monitoring() was invoked on a started monitor.
Stopped == loop_pc # "none" /\ ~sender

\* C17: on every tick on which the consumer's channel is open the loop
\* publishes one sample: as many snapshots were sent as ticks found the
\* channel open.
C17_EveryOpenTickPublishes == Len(published) = open_ticks

\* C18: the loop terminates once the consumer has dropped the receiver, and
\* once stop_monitoring() was invoked.
C18_LoopTerminates == (Stopped \/ receiver = "dropped") ~> (loop_pc = "done")

\* C19: once stop_monitoring() was invoked or the channel closed, and the
\* tick then in flight is over, no snapshot is published.
C19_NoPublicationAfterStop == [][settled => published' = published]_vars

\* After stop_monitoring() a later tick found the channel open and is in
\* its body; nothing was published.
C19_Witness ==
  /\ settled /\ Stopped /\ receiver = "held"
  /\ loop_pc = "body" /\ open_ticks < MaxTicks
  /\ published = <<>>

\* The deadline of the timeout-wrapped call c
Deadline(c) ==
  IF c.op = "create_connection_async" THEN c.arg.timeout_ms ELSE SendTimeoutMs

\* The deadline of call c elapsed before its transport call completed.
DeadlineElapsed(c) == \E i \in 1..Len(c.calls) : c.calls[i].took > Deadline(c)

\* C20: a timeout-wrapped operation returns a Timeout error whenever its
\* deadline elapses before the underlying transport call completes.
C20_TimeoutWhenDeadlineElapses ==
  \A op \in {"create_connection_async", "send_message_async", "receive_message_async"} :
    (Returned(op) /\ DeadlineElapsed(last)) => IsErr(last.res, "Timeout")

\* ------------------------------------------------ library lifecycle: C21..C24, C27
LibQuiescent == \A t \in Threads : lib[t].pc = "idle"

LibReturned(op) == LibQuiescent /\ lib_last.op = op

NativeFailed(calls) == \E i \in 1..Len(calls) : calls[i].rc # 0

\* C21: over any interleaving of initialize() and CoreBase::new() in two
\* threads, shutdown() and drops included, cba_error_handler_initialize and
\* cba_network_initialize are each invoked at most once.
C21_NativeInitAtMostOnce ==
  /\ natives.error_init <= 1
  /\ natives.network_init <= 1

\* A CoreBase::new() that did not run the closure has returned after a
\* successful shutdown(); the native initialisation ran once.
C21_Witness ==
  /\ LibReturned("new")
  /\ natives.shutdown_ok > 0
  /\ natives.network_init = 1
  /\ lib_last.calls = <<>>

\* C22: whenever initialize() returns Ok, is_initialized() is true right
\* afterwards; and an initialize() whose native initialisation failed returns
\* InitializationFailed.
C22_OkIffInitialized ==
  LibReturned("initialize") =>
    /\ lib_last.res.ok => is_initialized
    /\ NativeFailed(lib_last.calls) => lib_last.res = Err("InitializationFailed")

\* C23: a CoreBase::new() that returns Ok after a successful shutdown() has
\* initialised the library again: is_initialized() is true once it returned.
C23_NewReinitializes ==
  (LibReturned("new") /\ lib_last.res.ok /\ natives.shutdown_ok > 0) => is_initialized

\* C24: the drop of a CoreBase instance while another instance is alive, in
\* an initialised library, invokes no native shutdown and leaves
\* is_initialized() true.
C24_DropKeepsLibraryUp ==
  (LibReturned("drop") /\ instances >= 1 /\ lib_last.pre) =>
    /\ lib_last.calls = <<>>
    /\ is_initialized

\* C27: shutdown() on a library that is not initialised returns Ok without a
\* native call; on an initialised library it calls the native shutdown once
\* and returns Ok with is_initialized() false when that returned 0, and
\* ShutdownFailed with is_initialized() still true otherwise.
C27_ShutdownIdempotent ==
  LibReturned("shutdown") =>
    IF ~lib_last.pre
      THEN lib_last.res = Ok(Unit) /\ lib_last.calls = <<>> /\ ~is_initialized
    ELSE /\ Len(lib_last.calls) = 1
         /\ lib_last.calls[1].fn = "cba_error_handler_shutdown"
         /\ IF lib_last.calls[1].rc = 0
              THEN lib_last.res = Ok(Unit) /\ ~is_initialized
              ELSE lib_last.res = Err("ShutdownFailed") /\ is_initialized

\* A shutdown() has returned on a library that an earlier shutdown() had
\* shut down, after a native shutdown had failed as well.
C27_Witness ==
  /\ LibReturned("shutdown")
  /\ ~lib_last.pre
  /\ natives.shutdown_ok > 0
  /\ natives.shutdown > natives.shutdown_ok

\* ------------------------------------------------ values: C25, C26
\* C25: to_log_level gives every error kind one severity, whatever the
\* message: Critical for InitializationFailed and ShutdownFailed; Error for
\* ConfigError, NetworkError, OperationFailed, PermissionDenied and Unknown;
\* Warning for MonitorError, InvalidParameter, ResourceNotFound and Timeout.
C25_SeverityOfKind ==
  Returned("to_log_level") =>
    LET kind == last.arg.kind
        level == last.res.val
    IN /\ level \in {"Trace", "Debug", "Info", "Warning", "Error", "Critical"}
       /\ kind \in {"InitializationFailed", "ShutdownFailed"} => level = "Critical"
       /\ kind \in {"ConfigError", "NetworkError", "OperationFailed",
                    "PermissionDenied", "Unknown"} => level = "Error"
       /\ kind \in {"MonitorError", "InvalidParameter", "ResourceNotFound",
                    "Timeout"} => level = "Warning"
       /\ \A msg \in Texts : to_log_level([kind |-> kind, msg |-> msg]) = level

\* The severity of a Timeout with one of the messages has been asked for.
C25_Witness ==
  /\ Returned("to_log_level")
  /\ last.arg = [kind |-> "Timeout", msg |-> <<117>>]

\* The six orders of the three builders
BuilderOrders == Orders({"topic", "header", "sender"})

RECURSIVE Built(_, _, _, _, _, _)
Built(m, order, topic, key, value, s) ==
  IF order = <<>> THEN m
  ELSE Built(CASE Head(order) = "topic" -> with_topic(m, topic)
               [] Head(order) = "header" -> with_header(m, key, value)
               [] Head(order) = "sender" -> with_sender(m, s),
             Tail(order), topic, key, value, s)

\* C26: with_topic(t), with_header(k, v) and with_sender(s) applied in any
\* order to a message give the same message: payload (and timestamp)
\* unchanged, topic t, headers with k -> v and the other keys as before,
\* sender s; and each builder changes its own field only.
C26_BuildersCommute ==
  (Quiescent /\ InHand) =>
    LET m == last.res.val IN
    \A topic \in Texts, key \in Texts, value \in Texts, s \in Texts :
      /\ \A order \in BuilderOrders :
           Built(m, order, topic, key, value, s) =
             [data |-> m.data, topic |-> <<topic>>,
              headers |-> [x \in DOMAIN m.headers \cup {key} |->
                             IF x = key THEN value ELSE m.headers[x]],
              timestamp |-> m.timestamp, sender |-> <<s>>]
      /\ \A f \in {"data", "headers", "timestamp", "sender"} :
           with_topic(m, topic)[f] = m[f]
      /\ \A f \in {"data", "topic", "timestamp", "sender"} :
           with_header(m, key, value)[f] = m[f]
      /\ \A f \in {"data", "topic", "headers", "timestamp"} :
           with_sender(m, s)[f] = m[f]

\* A message that has a topic, a header and a sender already is in hand:
\* the builders are applied to it once more.
C26_Witness ==
  /\ Quiescent /\ InHand
  /\ last.res.val.topic # <<>>
  /\ last.res.val.sender # <<>>
  /\ DOMAIN last.res.val.headers # {}
  /\ last.res.val.data = <<72, 0>>

\* ------------------------------------------------ connection handles: C28..C30
\* C28: handle.send returns Ok exactly when the payload is UTF-8 text with no
\* NUL in it and the transport send returned 0; a payload that is not UTF-8
\* returns NetworkError and text with a NUL in it returns InvalidString, both
\* without a transport call; a non-zero transport status returns NetworkError.
C28_SendOutcome ==
  Returned("handle_send") =>
    LET data == last.arg.data
        sent == last.calls # <<>>
    IN /\ last.res.ok <=> (IsUtf8(data) /\ ~HasNul(data) /\ sent /\ last.calls[1].rc = 0)
       /\ ~IsUtf8(data) => (IsErr(last.res, "NetworkError") /\ ~sent)
       /\ (IsUtf8(data) /\ HasNul(data)) => (IsErr(last.res, "InvalidString") /\ ~sent)
       /\ (sent /\ last.calls[1].rc # 0) => IsErr(last.res, "NetworkError")
       /\ sent => (Len(last.calls) = 1 /\ last.calls[1].fn = "send"
                     /\ last.calls[1].id = last.arg.id)

\* A payload that is neither UTF-8 nor free of NULs was refused.
C28_Witness ==
  /\ Returned("handle_send")
  /\ last.arg.data = <<255, 0>>
  /\ ~last.res.ok

\* The index of the first NUL of buffer b, or one past its end
FirstNul(b) ==
  IF \E i \in 1..Len(b) : b[i] = 0
    THEN CHOOSE i \in 1..Len(b) : b[i] = 0 /\ \A j \in 1..(i - 1) : b[j] # 0
    ELSE Len(b) + 1

\* C29: on transport status 0 handle.receive returns a message whose payload
\* is the bytes of the buffer before its first NUL, the whole buffer when it
\* has none, with no topic, no headers and no sender; on another status it
\* returns NetworkError.
C29_ReceiveOutcome ==
  (Returned("handle_receive") /\ last.calls # <<>>) =>
    LET call == last.calls[1] IN
    /\ Len(call.buf) = BufferLen
    /\ IF call.rc = 0
         THEN /\ last.res.ok
              /\ last.res.val.data = SubSeq(call.buf, 1, FirstNul(call.buf) - 1)
              /\ last.res.val.topic = <<>>
              /\ DOMAIN last.res.val.headers = {}
              /\ last.res.val.sender = <<>>
         ELSE IsErr(last.res, "NetworkError")

\* A receive returned a buffer without a NUL, whole.
C29_Witness ==
  /\ Returned("handle_receive")
  /\ last.res.ok
  /\ Len(last.res.val.data) = BufferLen

\* The call recorded at hist[i] is a handle.close() that succeeded on a
\* connection that was registered then.
ClosedByHandle(i) ==
  /\ hist[i].op = "handle_close"
  /\ hist[i].res.ok
  /\ hist[i].arg \in DOMAIN hist[i].pre

\* C30: handle.close() calls the transport close and nothing else: the
\* registry is as before, so that the call after a successful handle.close()
\* finds the entry (get_connection), the same count (connection_count), and
\* calls the transport close on the id once more (close_connection).
C30_HandleCloseLeavesRegistry ==
  /\ Returned("handle_close") =>
       /\ connections = last.pre
       /\ Len(last.calls) = 1
       /\ last.calls[1].fn = "close" /\ last.calls[1].id = last.arg
  /\ \A i \in 1..(Len(hist) - 1) :
       ClosedByHandle(i) =>
         LET id == hist[i].arg
             next == hist[i + 1]
         IN /\ (next.op = "get" /\ next.arg = id) => next.res = Ok(hist[i].pre[id])
            /\ next.op = "count" => next.res = Ok(Cardinality(DOMAIN hist[i].pre))
            /\ (next.op = "close" /\ next.arg = id) =>
                 /\ next.calls # <<>>
                 /\ next.calls[1].fn = "close" /\ next.calls[1].id = id

\* close_connection(id) has returned Ok right after a successful
\* handle.close() of the same connection: two transport closes of one id.
C30_Witness ==
  /\ Quiescent
  /\ \E i \in 1..(Len(hist) - 1) :
       /\ ClosedByHandle(i)
       /\ hist[i + 1].op = "close" /\ hist[i + 1].arg = hist[i].arg
       /\ hist[i + 1].res.ok

\* ------------------------------------------------ teardown and lookups: C31, C32
\* C31: the drop of a NetworkManager calls the transport close for every id
\* registered when it starts, whatever the earlier closes returned, and once
\* started it comes to its end, with nothing but () for its owner.
C31_DropClosesAll ==
  /\ [](Returned("drop") =>
          /\ last.res = Ok(Unit)
          /\ {last.calls[i].id : i \in 1..Len(last.calls)} = DOMAIN last.pre
          /\ Len(last.calls) = Cardinality(DOMAIN last.pre)
          /\ \A i \in 1..Len(last.calls) : last.calls[i].fn = "close")
  /\ (th[MainThread].op = "drop") ~> Returned("drop")

\* A drop has come to its end though the first of its two closes failed.
C31_Witness ==
  /\ Returned("drop")
  /\ Len(last.calls) = 2
  /\ last.calls[1].rc # 0

\* C32: send_message(id, msg) and receive_message(id) on an id that is not
\* registered return ResourceNotFound without a transport call; on a
\* registered id they return what that connection's send or receive returns;
\* and the registry is as it was.
C32_RoutedToConnection ==
  /\ Returned("send_message") =>
       /\ connections = last.pre
       /\ IF last.arg.id \in DOMAIN last.pre
            THEN [res |-> last.res, calls |-> last.calls]
                   \in SendOutcomes(last.pre[last.arg.id], last.arg.data)
            ELSE IsErr(last.res, "ResourceNotFound") /\ last.calls = <<>>
  /\ Returned("receive_message") =>
       /\ connections = last.pre
       /\ IF last.arg.id \in DOMAIN last.pre
            THEN [res |-> last.res, calls |-> last.calls]
                   \in ReceiveOutcomes(last.pre[last.arg.id])
            ELSE IsErr(last.res, "ResourceNotFound") /\ last.calls = <<>>

\* A receive on an id that was closed came back ResourceNotFound while
\* another connection is registered.
C32_Witness ==
  /\ Returned("receive_message")
  /\ IsErr(last.res, "ResourceNotFound")
  /\ DOMAIN connections # {}

C34_TimeoutIsWholeMillis ==
  Returned("with_timeout") =>
    LET before == last.snap[1]
        after == last.res.val
    IN /\ <<after.timeout_ms[1], after.timeout_ms[2], 0>> = as_millis(last.arg)
       /\ \A f \in DOMAIN before \ {"timeout_ms"} : after[f] = before[f]

\* ------------------------------------------------ error handler: C35
\* C35: handle_corebase_error(error, re_throw) hands the error to the log
\* sink once, with the severity to_log_level(error); when logging fails it
\* returns the logging error, otherwise the original error when re_throw is
\* true and Ok when it is false.
C35_LoggedOnceThenRouted ==
  Returned("handle_corebase_error") =>
    LET e == last.arg.error
    IN /\ Len(last.calls) = 1
       /\ last.calls[1].fn = "log"
       /\ last.calls[1].level = level_code(to_log_level(e))
       /\ last.calls[1].message = format_corebase_error(e)
       /\ last.calls[1].rc # 0 => last.res = ErrOf(failed_to_log)
       /\ last.calls[1].rc = 0 =>
            last.res = IF last.arg.re_throw THEN ErrOf(e) ELSE Ok(Unit)

\* ------------------------------------------------ protocol codes: C36
\* C36: the codes of the nine protocols are 0..8 in the order of the
\* declaration, converting the code of a protocol back gives that protocol,
\* and every integer outside 0..8 converts to TCP.
C36_ProtocolCodeRoundTrip ==
  /\ Returned("protocol_code") =>
       /\ last.res.val \in 0..8
       /\ NetworkProtocols[last.res.val + 1] = last.arg
  /\ (Returned("protocol_from") /\ last.snap # <<>>) => last.res.val = last.snap[1]
  /\ (Returned("protocol_from") /\ last.arg \notin 0..8) => last.res.val = "TCP"

\* The code of Custom has been converted back.
C36_Witness ==
  /\ Returned("protocol_from")
  /\ last.snap = <<"Custom">>
  /\ last.arg = 8
  /\ last.res.val = "Custom"

\* ------------------------------------------------ concurrent closes: C37
\* Calls i and j of the history overlap: each was invoked before the other
\* returned.
Overlap(i, j) == ~ReturnedBefore(i, j) /\ ~ReturnedBefore(j, i)

\* C37: of two overlapping calls close_connection(id) for an id that was
\* registered when each was invoked, at most one invokes the transport close
\* and at most one returns Ok; the other returns ResourceNotFound.
C37_OneCloserWins ==
  \A i, j \in DOMAIN hist :
    ( /\ i # j
      /\ hist[i].op = "close" /\ hist[j].op = "close"
      /\ hist[i].arg = hist[j].arg
      /\ hist[i].arg \in DOMAIN hist[i].pre
      /\ hist[j].arg \in DOMAIN hist[j].pre
      /\ Overlap(i, j) )
    => /\ hist[i].calls = <<>> \/ hist[j].calls = <<>>
       /\ ~(hist[i].res.ok /\ hist[j].res.ok)
       /\ hist[i].res = Err("ResourceNotFound") \/ hist[j].res = Err("ResourceNotFound")

\* ------------------------------------------------ registry invariant: C38
\* The last call of the history that created id (op = "create") or closed it
\* (op = "close") successfully; 0 when there is none.
LastOk(op, id) ==
  LET is == {i \in DOMAIN hist :
               /\ hist[i].op = op /\ hist[i].res.ok
               /\ id = IF op = "create" THEN hist[i].res.val.id ELSE hist[i].arg}
  IN IF is = {} THEN 0 ELSE CHOOSE i \in is : \A j \in is : j <= i

\* The ids created successfully and not closed successfully since
Live == {id \in TransportIds : LastOk("create", id) > LastOk("close", id)}

\* No close_all_connections has run or is running: every successful close
\* is a close_connection of the history.
OnlyCloseConnection ==
  /\ \A i \in DOMAIN hist : hist[i].op # "close_all"
  /\ \A t \in Threads : th[t].outer # "close_all"

C38_Entries ==
  /\ \A k \in DOMAIN connections :
       connections[k].id = k /\ connections[k].state = "Connected"
  /\ OnlyCloseConnection => connection_count = Cardinality(Live)

\* A step changes the registry only by the insertion that ends a successful
\* create_connection, under the id it returns, and by the removal that ends
\* a successful close of a connection, of its id; and each of these leaves
\* the id in, or out of, the registry.
C38_Changes ==
  /\ \A id \in DOMAIN connections' \ DOMAIN connections :
       \E t \in Threads :
         /\ th[t].op = "create" /\ th'[t].pc = "idle"
         /\ last'.res = Ok(connections'[id]) /\ last'.t = t
  /\ \A id \in DOMAIN connections \ DOMAIN connections' :
       \E t \in Threads :
         /\ th[t].pc = "close_remove" /\ th[t].conn.id = id
         /\ th[t].calls[Len(th[t].calls)] = [fn |-> "close", id |-> id, rc |-> 0]
  /\ \A t \in Threads :
       /\ (th[t].op = "create" /\ th'[t].pc = "idle" /\ th[t].pc # "idle" /\ last'.res.ok)
            => last'.res.val.id \in DOMAIN connections'
       /\ (th[t].pc = "close_remove" /\ th'[t].pc # "close_remove")
            => th[t].conn.id \notin DOMAIN connections'
  /\ Cardinality(DOMAIN connections') - Cardinality(DOMAIN connections) \in {-1, 0, 1}

\* C38: in every reachable state of a NetworkManager each entry of the
\* registry is stored under its own id and is Connected, and
\* connection_count() is the number of distinct ids created successfully and
\* not closed successfully since.
C38_RegistryInvariant == []C38_Entries /\ [][C38_Changes]_vars

\* Two ids have been created and one of them closed: one entry is left.
C38_Witness ==
  /\ Quiescent
  /\ Len(hist) = 3
  /\ hist[3].op = "close" /\ hist[3].res.ok
  /\ Cardinality(Live) = 1
  /\ connection_count = 1

\* ------------------------------------------------ concurrent shutdown: C39
\* C39: of the calls of shutdown() that overlap after the one successful
\* initialisation (drops of CoreBase instances included), at most one invokes
\* the native shutdown: no two threads are at the native call together, and
\* the native shutdown does not succeed twice.
C39_NativeShutdownAtMostOnce ==
  /\ Cardinality({t \in Threads : lib[t].pc = "shutdown_native"}) <= 1
  /\ natives.shutdown_ok <= 1

\* ------------------------------------------------ configuration cache: C40
\* The cache that call i of the history left behind
CacheAfter(i) == IF i < Len(hist) THEN hist[i + 1].snap[1] ELSE cache

\* Call m ends what a set of key has cached: a successful set of the key, a
\* successful load, or clear_cache
Evicts(m, key) ==
  \/ hist[m].op = "config_set" /\ hist[m].res.ok /\ hist[m].arg.key = key
  \/ hist[m].op = "config_load" /\ hist[m].res.ok
  \/ hist[m].op = "clear_cache"

\* C40: after a successful set(k, v) every get(k) returns v without a call of
\* the native store, until the next successful set(k, _), load or
\* clear_cache; a failed set, get or load leaves the cache as it was, and a
\* successful load empties it.
C40_CacheCoherent ==
  /\ \A i, j \in DOMAIN hist :
       ( /\ i < j
         /\ hist[i].op = "config_set" /\ hist[i].res.ok
         /\ hist[j].op = "config_get" /\ hist[j].arg = hist[i].arg.key
         /\ \A m \in (i + 1)..(j - 1) : ~Evicts(m, hist[i].arg.key) )
       => hist[j].res = Ok(<<hist[i].arg.value>>) /\ hist[j].calls = <<>>
  /\ \A i \in DOMAIN hist :
       /\ (hist[i].op \in {"config_set", "config_get", "config_load"} /\ ~hist[i].res.ok)
            => CacheAfter(i) = hist[i].snap[1]
       /\ (hist[i].op = "config_load" /\ hist[i].res.ok) => CacheAfter(i) = <<>>

\* A value was set, a get of another key went to the native store and was
\* cached, and the get of the key returned the value that was set.
C40_Witness ==
  /\ Len(hist) = 3
  /\ hist[1].op = "config_set" /\ hist[1].res.ok /\ hist[1].arg.key = <<107>>
  /\ hist[2].op = "config_get" /\ hist[2].arg = <<108>> /\ hist[2].res.ok
  /\ hist[3].op = "config_get" /\ hist[3].arg = <<107>>
  /\ hist[3].res = Ok(<<hist[1].arg.value>>)
  /\ DOMAIN cache = {<<107>>, <<108>>}
====
